---- MODULE Spec2Model ----
(***************************************************************************)
(* Device emulator: per-field value generators (SimpleDevice /             *)
(* BaseDataGenerator), the SimpleEmulator emulation loop with start/stop,  *)
(* on-demand generation, and the client-side DataStream ring buffer.       *)
(*                                                                         *)
(* Numbers.  Python floats are modelled on a grid: a value v is the        *)
(* integer v * ValueScale, a time is a whole number of milliseconds, a     *)
(* frequency is in milli-Hertz, a noise level is a numerator over          *)
(* NoiseDen.  random.uniform(a, b) is a choice among the grid points       *)
(* between a and b.                                                        *)
(***************************************************************************)
EXTENDS Integers, Sequences, FiniteSets, TLC

VARIABLES
    config,                 \* SimpleEmulator.config.devices: sequence of device definitions
    generators,             \* SimpleDevice.generators, per device id and field name
    last_generation_times,  \* device._last_generation_times, per device id (a dict)
    latest_data,            \* SimpleEmulator.latest_data, per device id (a dict per device)
    running,                \* SimpleEmulator.running
    loops,                  \* one record per _main_emulation_loop coroutine created by start()
    faults,                 \* number of generation errors raised so far
    samples,                \* history: samples recorded by the loop per (device, field)
    now,                    \* wall clock (time.time() / datetime.now()), milliseconds
    last_call,              \* history: what the most recent generate call did
    produced,               \* history: value last returned per (device, field), or None
    de_generators,          \* DeviceEmulator.generators (BaseDataGenerator per field name)
    data_streams,           \* DataManager.data_streams: device id -> field -> DataStream
    inserted,               \* history: number of samples recorded into the data sink
    reply,                  \* history: the most recent API call or query and what it returned
    ws,                     \* the _websocket_handler coroutine of one GET /ws connection
    inflight,               \* generate calls that have read a generator and not yet written it
    pending,                \* entries of the payload process_data_batch has yet to record
    reader,                 \* the UI thread's get_latest_data call on the DataManager
    de_running,             \* DeviceEmulator.running
    tasks,                  \* asyncio tasks created by start(): DeviceEmulator.tasks, api_task
    calls                   \* history: the start() and stop() coroutines and how they ended

vars == <<config, generators, last_generation_times, latest_data, running, loops, faults,
          now, last_call, produced, de_generators, data_streams, inserted, samples,
          reply, ws, inflight, pending, reader, de_running, tasks, calls>>

emuVars == <<config, generators, last_generation_times, latest_data, running, loops,
             faults>>

histVars == <<last_call, produced>>

threadVars == <<pending, reader>>

sinkVars == <<data_streams, inserted, pending, reader>>

connVars == <<ws, inflight>>

taskVars == <<de_running, tasks, calls>>

----------------------------------------------------------------------------
(* Representation *)

\* grid points per unit of value: 0.5 is the integer 1
ValueScale == 2

\* noise_level n stands for n / NoiseDen
NoiseDen == 2

\* milliseconds per second (timedelta.total_seconds(), time.time() are in seconds)
MsPerSecond == 1000

\* Python None / Optional[x]: None is the empty sequence, a value v is <<v>>
None == <<>>

Some(v) == <<v>>

IsNone(o) == o = <<>>

TheValue(o) == o[1]

Max2(a, b) == IF a >= b THEN a ELSE b

Min2(a, b) == IF a <= b THEN a ELSE b

Abs(a) == IF a >= 0 THEN a ELSE -a

\* quotient rounded toward zero
Trunc(x, d) == IF x >= 0 THEN x \div d ELSE -((-x) \div d)

\* Python int(v) on a scaled value: drop the fractional part, toward zero
int(v) == Trunc(v, ValueScale) * ValueScale

\* rate (scaled value per second) times a timedelta in milliseconds
TimesSeconds(rate, dt) == Trunc(rate * dt, MsPerSecond)

\* random.uniform(a, b) = a + (b - a) * random(): any point between a and b
uniform(a, b) == Min2(a, b) .. Max2(a, b)

\* random.randint(a, b): whole numbers a..b; raises ValueError when a > b
randint(a, b) == {v \in a .. b : v % ValueScale = 0}

----------------------------------------------------------------------------
(* Configuration models *)

DataType_INTEGER == "integer"

DataType_FLOAT == "float"

DataType_BOOLEAN == "boolean"

DataType_STRING == "string"

\* DataGenerationConfig
FieldCfg(name, type, lo, hi, freq, step, init, noise, drift) ==
    [name |-> name, data_type |-> type, min_value |-> lo, max_value |-> hi,
     frequency |-> freq, change_step |-> step, initial_value |-> init,
     noise_level |-> noise, drift_rate |-> drift,
     possible_states |-> IF type = DataType_STRING THEN {"on", "off"} ELSE {}]

\* @validator('min_value', 'max_value'): `values` holds only the fields
\* validated before the one being validated (declaration order: name,
\* data_type, min_value, max_value, ...)
validate_range(values, cfg) ==
    ~ ("min_value" \in values /\ "max_value" \in values
       /\ cfg.min_value > cfg.max_value)

\* @validator('initial_value'): not run for the default None
validate_initial_value(values, cfg) ==
    IF IsNone(cfg.initial_value) THEN TRUE
    ELSE IF ~ ("min_value" \in values /\ "max_value" \in values) THEN TRUE
    ELSE /\ cfg.min_value <= TheValue(cfg.initial_value)
         /\ TheValue(cfg.initial_value) <= cfg.max_value

\* construction of a DataGenerationConfig succeeds
DataGenerationConfigOk(cfg) ==
    /\ validate_range({"name", "data_type"}, cfg)
    /\ validate_range({"name", "data_type", "min_value"}, cfg)
    /\ validate_initial_value({"name", "data_type", "min_value", "max_value",
                               "frequency", "change_step", "unit"}, cfg)
    /\ cfg.noise_level >= 0 /\ cfg.noise_level <= NoiseDen

IsNumeric(cfg) == cfg.data_type \in {DataType_INTEGER, DataType_FLOAT}

----------------------------------------------------------------------------
(* Field generator: SimpleDevice (same algorithm as BaseDataGenerator) *)

\* _get_initial_value: the set of values the constructor may draw
InitialValues(cfg) ==
    IF ~IsNone(cfg.initial_value) THEN {TheValue(cfg.initial_value)}
    ELSE IF cfg.data_type = DataType_INTEGER THEN randint(int(cfg.min_value), int(cfg.max_value))
    ELSE IF cfg.data_type = DataType_FLOAT THEN uniform(cfg.min_value, cfg.max_value)
    ELSE IF cfg.data_type = DataType_BOOLEAN THEN {TRUE, FALSE}
    ELSE cfg.possible_states

\* _initialize_generators: one generator dict entry
NewGenerator(cfg, v, t) ==
    [config |-> cfg, current_value |-> v, last_update |-> t, drift_offset |-> 0]

_clamp_value_Rounding(value, cfg) ==
    IF cfg.data_type = DataType_INTEGER
    THEN Max2(int(cfg.min_value), Min2(int(cfg.max_value), int(value + ValueScale \div 2)))
    ELSE Max2(cfg.min_value, Min2(cfg.max_value, value))

\* _clamp_value
_clamp_value(value, cfg) ==
    IF cfg.data_type = DataType_INTEGER
    THEN Max2(int(cfg.min_value), Min2(int(cfg.max_value), int(value)))
    ELSE Max2(cfg.min_value, Min2(cfg.max_value, value))

\* min(1.0, change_step * time_delta.total_seconds()), times
\* ValueScale * MsPerSecond (change_step is scaled, dt2 is in milliseconds)
ProbabilityOne == ValueScale * MsPerSecond

flip_probability_AtLeastOnce(cfg, dt2) == Max2(1, Min2(ProbabilityOne, cfg.change_step * dt2))

flip_probability(cfg, dt2) == Min2(ProbabilityOne, cfg.change_step * dt2)

\* the truth values `random.random() < p` may have: random() is in [0.0, 1.0)
random_below_Closed(p) ==
    (IF p > 0 THEN {TRUE} ELSE {}) \cup (IF p <= ProbabilityOne THEN {FALSE} ELSE {})

random_below(p) ==
    (IF p > 0 THEN {TRUE} ELSE {}) \cup (IF p < ProbabilityOne THEN {FALSE} ELSE {})

\* _generate_next_value: the set of (new current_value, returned value)
\* pairs; dt2 is the time since last_update read inside this function
_generate_next_value(g, dt2) ==
    LET cfg == g.config
        max_change == TimesSeconds(cfg.change_step, dt2)
    IN  IF IsNumeric(cfg)
        THEN {[current_value |-> _clamp_value(g.current_value + change, cfg),
               value |-> _clamp_value(g.current_value + change, cfg)] :
                 change \in uniform(-max_change, max_change)}
        ELSE \* Boolean: flipped or kept; String: a new choice or kept
             LET changed == IF cfg.data_type = DataType_BOOLEAN
                            THEN {~g.current_value}
                            ELSE cfg.possible_states
                 new == UNION {IF flip THEN changed ELSE {g.current_value} :
                                 flip \in random_below(flip_probability(cfg, dt2))}
             IN  {[current_value |-> v, value |-> v] : v \in new}

DriftOffsetAfter_Replacing(g, dt1) ==
    IF g.config.drift_rate = 0 THEN g.drift_offset
    ELSE TimesSeconds(g.config.drift_rate, dt1)

\* _apply_drift: the new drift_offset
DriftOffsetAfter(g, dt1) ==
    IF g.config.drift_rate = 0 THEN g.drift_offset
    ELSE g.drift_offset + TimesSeconds(g.config.drift_rate, dt1)

\* _apply_drift: the value returned
_apply_drift(value, g, dt1) ==
    IF g.config.drift_rate = 0 THEN value
    ELSE IF g.config.data_type = DataType_INTEGER
         THEN int(value + DriftOffsetAfter(g, dt1))
         ELSE value + DriftOffsetAfter(g, dt1)

\* _apply_noise: the set of values it may return
_apply_noise(value, cfg) ==
    IF cfg.noise_level = 0 THEN {value}
    ELSE LET noise_range == Trunc((cfg.max_value - cfg.min_value) * cfg.noise_level,
                                  NoiseDen)
         IN  {IF cfg.data_type = DataType_INTEGER THEN int(value + noise) ELSE value + noise :
                noise \in uniform(-noise_range, noise_range)}

generate_data_point_RetainingNoise(g, now1, now2) ==
    LET cfg == g.config
        dt1 == now1 - g.last_update
        dt2 == now2 - g.last_update
    IN  UNION {
          LET g1 == [g EXCEPT !.current_value = nv.current_value]
          IN  IF IsNumeric(cfg)
              THEN {[gen |-> [g1 EXCEPT !.current_value = _clamp_value(noisy, cfg),
                                        !.drift_offset = DriftOffsetAfter(g, dt1),
                                        !.last_update = now1],
                     value |-> _clamp_value(noisy, cfg),
                     timestamp |-> now1] :
                      noisy \in _apply_noise(_apply_drift(nv.value, g1, dt1), cfg)}
              ELSE {[gen |-> [g1 EXCEPT !.last_update = now1],
                     value |-> nv.value,
                     timestamp |-> now1]}
          : nv \in _generate_next_value(g, dt2)}

\* generate_data_point: the set of outcomes [gen, value, timestamp]; now1 is
\* the datetime.now() read by generate_data_point, now2 the later one read
\* by _generate_next_value
generate_data_point(g, now1, now2) ==
    LET cfg == g.config
        dt1 == now1 - g.last_update
        dt2 == now2 - g.last_update
    IN  UNION {
          LET g1 == [g EXCEPT !.current_value = nv.current_value]
          IN  IF IsNumeric(cfg)
              THEN {[gen |-> [g1 EXCEPT !.drift_offset = DriftOffsetAfter(g, dt1),
                                        !.last_update = now1],
                     value |-> _clamp_value(noisy, cfg),
                     timestamp |-> now1] :
                      noisy \in _apply_noise(_apply_drift(nv.value, g1, dt1), cfg)}
              ELSE {[gen |-> [g1 EXCEPT !.last_update = now1],
                     value |-> nv.value,
                     timestamp |-> now1]}
          : nv \in _generate_next_value(g, dt2)}

----------------------------------------------------------------------------
(* Clock and call history *)

\* time.time() when the program starts; any field interval is far shorter
Epoch == 100000

\* seconds of wall-clock time a run of the generator model covers
MaxElapsed == 3

\* the clock may move between two consecutive datetime.now() reads
SkewStep == MsPerSecond \div 2

\* a later clock read: the same instant or SkewStep later
ClockReads(t, limit) == {t2 \in {t, t + SkewStep} : t2 <= limit}

\* a name / id that no configuration declares
UnknownName == "nosuch"

\* record of one generate call: operation, target, outcome, returned value,
\* the value produced before it (or the initial value), the elapsed time
\* the step was computed from, and the field configuration
Call(op, device, name, status, value, prev, dt, cfg) ==
    [op |-> op, device |-> device, name |-> name, status |-> status,
     value |-> value, prev |-> prev, dt |-> dt, cfg |-> cfg]

NoCall == Call("none", "", "", "none", None, None, 0, None)

\* record of one API call or query: operation, arguments, what it returned
\* and the (device, field) errors it logged
Reply(op, device, name, result, errors) ==
    [op |-> op, device |-> device, name |-> name, result |-> result, errors |-> errors]

NoReply == Reply("none", "", "", <<>>, <<>>)

\* no client has connected to GET /ws and no generate call is under way
NoWs == [pc |-> "none", pos |-> 0, sent |-> 0, closed |-> FALSE, wake_at |-> 0,
         all_data |-> <<>>]

\* no get_latest_data call is running
NoReader == [pc |-> "idle", size |-> 0, visited |-> {}, device |-> "", inner_size |-> 0,
             inner_visited |-> {}, latest_data |-> <<>>]

NoConnection ==
    /\ ws = NoWs
    /\ inflight = <<>>

\* value a field produced last, or its current (initial) value
Previous(prod, g) == IF IsNone(prod) THEN g.current_value ELSE TheValue(prod)

----------------------------------------------------------------------------
(* DeviceEmulator: on-demand generation over BaseDataGenerator *)

DeviceEmulatorId == "de"

\* field configurations the generator model draws its single field from
GenConfigs ==
    { FieldCfg("f", DataType_FLOAT, 0, 20, 1000, 2, None, 0, 0),
      FieldCfg("f", DataType_FLOAT, 0, 4, 1000, 2, None, 1, 1),
      FieldCfg("f", DataType_FLOAT, 0, 4, 1000, 1, Some(2), 0, -1),
      FieldCfg("f", DataType_INTEGER, 1, 5, 1000, 2, Some(1), 0, 0),
      FieldCfg("f", DataType_INTEGER, 0, 6, 1000, 3, None, 1, -1),
      FieldCfg("f", DataType_FLOAT, 4, 2, 1000, 2, None, 0, 0),
      FieldCfg("f", DataType_BOOLEAN, 0, 2, 1000, 0, None, 0, 0),
      FieldCfg("f", DataType_BOOLEAN, 0, 2, 1000, 2, None, 0, 0),
      FieldCfg("f", DataType_STRING, 0, 2, 1000, 1, None, 0, 0) }

\* DeviceEmulator._initialize_generators for a one-field DeviceConfig
DeviceEmulatorInit(cfg, v) ==
    /\ DataGenerationConfigOk(cfg)
    /\ v \in InitialValues(cfg)
    /\ de_generators = [n \in {cfg.name} |-> NewGenerator(cfg, v, Epoch)]

\* DeviceEmulator.generate_single_data(data_type_name); the clock reads no
\* later than limit
generate_single_data(name, limit) ==
    /\ IF name \notin DOMAIN de_generators
       THEN /\ last_call' = Call("generate_single_data", DeviceEmulatorId, name,
                                 "None", None, None, 0, None)
            /\ UNCHANGED <<de_generators, now, produced>>
       ELSE LET g == de_generators[name]
                key == <<DeviceEmulatorId, name>>
            IN  \E now2 \in ClockReads(now, limit) :
                \E o \in generate_data_point(g, now, now2) :
                  /\ de_generators' = [de_generators EXCEPT ![name] = o.gen]
                  /\ now' = now2
                  /\ produced' = [produced EXCEPT ![key] = Some(o.value)]
                  /\ last_call' = Call("generate_single_data", DeviceEmulatorId, name,
                                       "ok", Some(o.value),
                                       Some(Previous(produced[key], g)),
                                       now2 - g.last_update, Some(g.config))
    /\ UNCHANGED emuVars
    /\ UNCHANGED sinkVars
    /\ UNCHANGED taskVars

\* wall-clock time passes between calls
Elapse ==
    /\ now + MsPerSecond <= Epoch + MaxElapsed * MsPerSecond
    /\ now' = now + MsPerSecond
    /\ UNCHANGED <<de_generators, last_call, produced>>
    /\ UNCHANGED emuVars
    /\ UNCHANGED sinkVars
    /\ UNCHANGED taskVars

\* the emulator and the data stream, constructed and idle
EmulatorIdle ==
    /\ config = <<>>
    /\ generators = <<>>
    /\ last_generation_times = <<>>
    /\ latest_data = <<>>
    /\ running = FALSE
    /\ loops = <<>>
    /\ faults = 0

\* no start() was called: no task exists
NoTasks ==
    /\ de_running = FALSE
    /\ tasks = <<>>
    /\ calls = <<>>

SinkIdle ==
    /\ data_streams = <<>>
    /\ inserted = 0
    /\ pending = <<>>
    /\ reader = NoReader

InitGen ==
    /\ \E cfg \in GenConfigs : \E v \in InitialValues(cfg) : DeviceEmulatorInit(cfg, v)
    /\ now = Epoch
    /\ last_call = NoCall
    /\ produced = [k \in {<<DeviceEmulatorId, n>> : n \in DOMAIN de_generators} |-> None]
    /\ samples = <<>>
    /\ reply = NoReply
    /\ NoConnection
    /\ EmulatorIdle
    /\ SinkIdle
    /\ NoTasks

GenHorizon == Epoch + MaxElapsed * MsPerSecond

GenerateKnown ==
    \E name \in DOMAIN de_generators : generate_single_data(name, GenHorizon)

GenerateUnknown == generate_single_data(UnknownName, GenHorizon)

NextGen ==
    /\ \/ GenerateKnown
       \/ GenerateUnknown
       \/ Elapse
    /\ UNCHANGED <<samples, reply, ws, inflight>>

SpecGen == InitGen /\ [][NextGen]_vars

----------------------------------------------------------------------------
(* Properties of the generators *)

\* the last call returned a value of a numeric field
NumericReturned ==
    /\ last_call.status = "ok"
    /\ IsNumeric(TheValue(last_call.cfg))

\* C1: every value returned for an Integer or Float field lies within
\* [min_value, max_value], whatever the elapsed time, step, noise and drift
C1_ValueWithinRange ==
    NumericReturned =>
        /\ TheValue(last_call.cfg).min_value <= TheValue(last_call.value)
        /\ TheValue(last_call.value) <= TheValue(last_call.cfg).max_value

\* the last call returned a value of a Float field without noise and drift
PlainFloatReturned ==
    /\ last_call.status = "ok"
    /\ TheValue(last_call.cfg).data_type = DataType_FLOAT
    /\ TheValue(last_call.cfg).noise_level = 0
    /\ TheValue(last_call.cfg).drift_rate = 0

\* C2: a Float field with noise = 0 and drift = 0 moves by at most
\* change_step x elapsed time per call and never leaves [min_value, max_value]
C2_StepBounded ==
    PlainFloatReturned =>
        /\ Abs(TheValue(last_call.value) - TheValue(last_call.prev))
             <= TimesSeconds(TheValue(last_call.cfg).change_step, last_call.dt)
        /\ TheValue(last_call.cfg).min_value <= TheValue(last_call.value)
        /\ TheValue(last_call.value) <= TheValue(last_call.cfg).max_value

----------------------------------------------------------------------------
(* Data sink: DataManager / DataStream (client side) *)

\* deque(maxlen=1000)
DequeMaxLen == 1000

\* number of samples the ring-buffer model records
MaxRecords == 1002

deque_append_unbounded(dq, x) == Append(dq, x)

\* deque.append on a deque with maxlen: a full deque drops its leftmost item
deque_append(dq, x) ==
    IF Len(dq) >= DequeMaxLen THEN Append(Tail(dq), x) ELSE Append(dq, x)

\* DataStream(device_id, data_type)
NewDataStream(device_id, data_type) ==
    [device_id |-> device_id, data_type |-> data_type,
     data_points |-> <<>>, last_update |-> None]

\* DataStream.add_data_point
add_data_point(stream, data_point) ==
    [stream EXCEPT !.data_points = deque_append(stream.data_points, data_point),
                   !.last_update = Some(data_point.timestamp)]

\* get or create the stream of (device_id, data_type), then add the point
RecordInto(streams, device_id, data_type, data_point) ==
    LET s1 == IF device_id \in DOMAIN streams THEN streams
              ELSE streams @@ (device_id :> <<>>)
        s2 == IF data_type \in DOMAIN s1[device_id] THEN s1
              ELSE [s1 EXCEPT ![device_id] =
                      @ @@ (data_type :> NewDataStream(device_id, data_type))]
    IN  [s2 EXCEPT ![device_id][data_type] = add_data_point(@, data_point)]

\* the series the ring-buffer model feeds
RingDevice == "temp_sensor"

RingField == "temperature"

\* DataManager.process_data_batch with a payload holding one sample of the
\* series; the k-th sample has value k and is stamped k seconds after Epoch
process_data_batch ==
    /\ inserted < MaxRecords
    /\ LET data_point == [value |-> inserted + 1,
                          timestamp |-> Epoch + (inserted + 1) * MsPerSecond]
       IN  data_streams' = RecordInto(data_streams, RingDevice, RingField, data_point)
    /\ inserted' = inserted + 1
    /\ UNCHANGED <<now, de_generators>>
    /\ UNCHANGED emuVars
    /\ UNCHANGED histVars

InitRing ==
    /\ SinkIdle
    /\ NoTasks
    /\ EmulatorIdle
    /\ de_generators = <<>>
    /\ now = Epoch
    /\ last_call = NoCall
    /\ produced = <<>>
    /\ samples = <<>>
    /\ reply = NoReply
    /\ NoConnection

NextRing ==
    /\ process_data_batch
    /\ UNCHANGED <<samples, reply, ws, inflight>>
    /\ UNCHANGED threadVars
    /\ UNCHANGED taskVars

SpecRing == InitRing /\ [][NextRing]_vars

\* the stored samples of the fed series (none before its first sample)
RingPoints ==
    IF RingDevice \in DOMAIN data_streams
    THEN data_streams[RingDevice][RingField].data_points
    ELSE <<>>

\* C4: a series never holds more than DequeMaxLen samples, and it holds
\* exactly the most recently inserted ones, in insertion order
C4_RingBuffer ==
    /\ Len(RingPoints) <= DequeMaxLen
    /\ Len(RingPoints) = Min2(inserted, DequeMaxLen)
    /\ \A i \in 1 .. Len(RingPoints) :
         RingPoints[i].value = inserted - Len(RingPoints) + i

\* capacity + 1 samples were inserted: the oldest one is gone
C4_Witness ==
    /\ inserted = DequeMaxLen + 1
    /\ Len(RingPoints) = DequeMaxLen
    /\ RingPoints[1].value = 2
    /\ RingPoints[DequeMaxLen].value = DequeMaxLen + 1

----------------------------------------------------------------------------
(* SimpleEmulator: devices *)

\* DeviceDefinition
Dev(device_id, data_configs) == [device_id |-> device_id, data_configs |-> data_configs]

DeviceIds(conf) == {conf[i].device_id : i \in DOMAIN conf}

\* the definition of a configured device id
DeviceDef(conf, device_id) ==
    conf[CHOOSE i \in DOMAIN conf : conf[i].device_id = device_id]

\* keys of SimpleDevice.generators in insertion order (a dict keeps the
\* position of a key's first insertion)
RECURSIVE GeneratorKeys(_, _)
GeneratorKeys(cfgs, n) ==
    IF n = 0 THEN <<>>
    ELSE LET r == GeneratorKeys(cfgs, n - 1)
         IN  IF \E k \in DOMAIN r : r[k] = cfgs[n].name THEN r
             ELSE Append(r, cfgs[n].name)

\* SimpleDevice.get_available_data_types
get_available_data_types(dev) == GeneratorKeys(dev.data_configs, Len(dev.data_configs))

\* next(dc for dc in device.data_configs if dc.name == name)
FirstConfig(dev, name) ==
    dev.data_configs[CHOOSE i \in DOMAIN dev.data_configs :
        /\ dev.data_configs[i].name = name
        /\ \A j \in 1 .. i - 1 : dev.data_configs[j].name # name]

\* the configuration the generator of `name` was built from: a later
\* data_config of the same name overwrites the dict entry
LastConfig(dev, name) ==
    dev.data_configs[CHOOSE i \in DOMAIN dev.data_configs :
        /\ dev.data_configs[i].name = name
        /\ \A j \in i + 1 .. Len(dev.data_configs) : dev.data_configs[j].name # name]

\* (device_id, field name) pairs in the order the loop visits them
RECURSIVE Pairs(_, _)
Pairs(conf, n) ==
    IF n = 0 THEN <<>>
    ELSE LET names == get_available_data_types(conf[n])
         IN  Pairs(conf, n - 1)
               \o [k \in DOMAIN names |-> <<conf[n].device_id, names[k]>>]

AllPairs(conf) == Pairs(conf, Len(conf))

\* DeviceData
DeviceData(device_id, timestamp, data_type, value) ==
    [device_id |-> device_id, timestamp |-> timestamp, data_type |-> data_type,
     value |-> value]

\* dict.get(key, default)
Get(dict, key, default) == IF key \in DOMAIN dict THEN dict[key] ELSE default

\* dict[key] = value
Put(dict, key, value) ==
    IF key \in DOMAIN dict THEN [dict EXCEPT ![key] = value]
    ELSE dict @@ (key :> value)

\* position of a (device, field) pair in the loop's visiting order
PairIndex(conf, device_id, name) ==
    CHOOSE k \in DOMAIN AllPairs(conf) : AllPairs(conf)[k] = <<device_id, name>>

\* SimpleDevice._initialize_generators for the first n pairs: every way of
\* drawing the initial values, as sequences of generator entries
RECURSIVE InitialGenerators(_, _, _)
InitialGenerators(conf, t, n) ==
    IF n = 0 THEN {<<>>}
    ELSE LET pr == AllPairs(conf)[n]
             cfg == LastConfig(DeviceDef(conf, pr[1]), pr[2])
         IN  {Append(m, NewGenerator(cfg, v, t)) :
                m \in InitialGenerators(conf, t, n - 1), v \in InitialValues(cfg)}

\* SimpleEmulator.__init__ / _initialize_devices at time t: every device
\* gets its generators (initial values drawn), an empty latest_data entry
\* and no _last_generation_times attribute yet
SimpleEmulatorInit(conf, t) ==
    /\ config = conf
    /\ \A i \in DOMAIN conf : \A k \in DOMAIN conf[i].data_configs :
         DataGenerationConfigOk(conf[i].data_configs[k])
    /\ \E m \in InitialGenerators(conf, t, Len(AllPairs(conf))) :
         generators = [d \in DeviceIds(conf) |->
                         [n \in {AllPairs(conf)[k][2] :
                                   k \in {j \in DOMAIN AllPairs(conf) : AllPairs(conf)[j][1] = d}}
                            |-> m[PairIndex(conf, d, n)]]]
    /\ last_generation_times = [d \in DeviceIds(conf) |-> <<>>]
    /\ latest_data = [d \in DeviceIds(conf) |-> <<>>]
    /\ running = FALSE
    /\ loops = <<>>
    /\ faults = 0

----------------------------------------------------------------------------
(* SimpleEmulator: generation *)

\* SimpleDevice.generate_device_data(name) on device d: ValueError for an
\* unknown name, else the outcomes of generate_data_point
generate_device_data(d, name, now1, now2) ==
    IF name \notin DOMAIN generators[d]
    THEN {[status |-> "ValueError"]}
    ELSE {[status |-> "ok", gen |-> o.gen, value |-> o.value, timestamp |-> o.timestamp] :
            o \in generate_data_point(generators[d][name], now1, now2)}

----------------------------------------------------------------------------
(* SimpleEmulator: start, stop and the emulation loop *)

\* min_sleep_time = 0.1
DefaultSleepMs == 100

\* number of start() calls the loop model follows
MaxStarts == 2

\* number of generation errors the loop model injects
MaxFaults == 1

\* 1.0 / frequency, in milliseconds, for a frequency in milli-Hertz
IntervalOf(frequency) == (MsPerSecond * 1000) \div frequency

SetMin(S) == CHOOSE x \in S : \A y \in S : x <= y

\* min_sleep_time: the shortest 1/frequency of any data_config with a
\* positive frequency, starting from the default
MinSleepTime(conf) ==
    SetMin({DefaultSleepMs} \cup
           UNION {{IntervalOf(conf[i].data_configs[k].frequency) :
                     k \in {j \in DOMAIN conf[i].data_configs :
                              conf[i].data_configs[j].frequency > 0}} :
                  i \in DOMAIN conf})

generation_interval_OneSecond(data_config) == MsPerSecond

\* generation_interval
generation_interval(data_config) ==
    IF data_config.frequency > 0 THEN IntervalOf(data_config.frequency) ELSE MsPerSecond

\* a coroutine _main_emulation_loop about to test `while self.running`;
\* outcome lists what the current tick did with each pair it has visited;
\* stopped, gen_after_stop, tick_after_stop are history: a stop() was
\* called while this loop was alive, and what the loop did after it
NewLoop(conf) ==
    [pc |-> "check", pos |-> 0, loop_start |-> 0, wake_at |-> 0,
     min_sleep_time |-> MinSleepTime(conf), outcome |-> <<>>,
     stopped |-> FALSE, gen_after_stop |-> FALSE, tick_after_stop |-> FALSE]

Alive(l) == loops[l].pc # "exited"

\* a coroutine of the event loop is executing (it is not suspended in
\* asyncio.sleep): no other coroutine of that event loop runs meanwhile
Busy == \E l \in DOMAIN loops : loops[l].pc \in {"check", "fields"}

\* `while self.running:` at time t: the next tick begins with
\* loop_start = time.time(), or the loop ends
WhileRunning(L, t) ==
    IF running
    THEN [L EXCEPT !.pc = "fields", !.pos = 1, !.loop_start = t, !.outcome = <<>>,
                   !.tick_after_stop = @ \/ L.stopped]
    ELSE [L EXCEPT !.pc = "exited"]

StartResetting ==
    /\ Len(loops) < MaxStarts
    /\ ~Busy
    /\ running' = TRUE
    /\ loops' = Append(loops, NewLoop(config))
    /\ generators' = [d \in DOMAIN generators |->
                        [n \in DOMAIN generators[d] |->
                           NewGenerator(generators[d][n].config,
                                        CHOOSE v \in InitialValues(generators[d][n].config) : TRUE,
                                        now)]]
    /\ UNCHANGED <<config, last_generation_times, latest_data, faults>>
    /\ UNCHANGED <<now, de_generators>>
    /\ UNCHANGED histVars
    /\ UNCHANGED sinkVars
    /\ UNCHANGED taskVars

\* SimpleEmulator.start(enable_api=False), called on the emulator's event
\* loop: sets running and runs a new emulation loop; there is no check of
\* the current state
Start ==
    /\ Len(loops) < MaxStarts
    /\ ~Busy
    /\ running' = TRUE
    /\ loops' = Append(loops, NewLoop(config))
    /\ UNCHANGED <<config, generators, last_generation_times, latest_data, faults>>
    /\ UNCHANGED <<now, de_generators>>
    /\ UNCHANGED histVars
    /\ UNCHANGED sinkVars
    /\ UNCHANGED taskVars

\* SimpleEmulator.stop(), called from any thread (EmulatorRunner.stop runs
\* it on the main thread while the loop runs on the emulator thread):
\* clears running and returns (rest_server is None); it does not wait for
\* the loop
Stop ==
    /\ running' = FALSE
    /\ loops' = [l \in DOMAIN loops |->
                   IF Alive(l) THEN [loops[l] EXCEPT !.stopped = TRUE] ELSE loops[l]]
    /\ UNCHANGED <<config, generators, last_generation_times, latest_data, faults>>
    /\ UNCHANGED <<now, de_generators>>
    /\ UNCHANGED histVars
    /\ UNCHANGED sinkVars
    /\ UNCHANGED taskVars

\* the first `while self.running:` of a loop, or the one that follows a
\* tick that ended without sleeping
LoopCheck(l) ==
    /\ loops[l].pc = "check"
    /\ loops' = [loops EXCEPT ![l] = WhileRunning(@, now)]
    /\ UNCHANGED <<config, generators, last_generation_times, latest_data, running, faults>>
    /\ UNCHANGED <<now, de_generators>>
    /\ UNCHANGED histVars
    /\ UNCHANGED sinkVars
    /\ UNCHANGED taskVars

EndOfTick_AlwaysSleeping(L) ==
    LET loop_duration == now - L.loop_start
        sleep_time == Max2(1, L.min_sleep_time - loop_duration)
    IN  [L EXCEPT !.pc = "sleep", !.wake_at = now + sleep_time]

\* end of a tick: loop_duration = time.time() - loop_start, sleep_time =
\* max(0, min_sleep_time - loop_duration); the loop sleeps only when
\* sleep_time > 0, else it goes straight back to `while self.running`
EndOfTick(L) ==
    LET loop_duration == now - L.loop_start
        sleep_time == Max2(0, L.min_sleep_time - loop_duration)
    IN  IF sleep_time > 0
        THEN [L EXCEPT !.pc = "sleep", !.wake_at = now + sleep_time]
        ELSE [L EXCEPT !.pc = "check"]

\* the loop record after the body of the inner for-loop ran for the pair
\* at L.pos; after the last pair the tick ends
AfterPairAborting(L, what, generated) ==
    LET L1 == [L EXCEPT !.outcome = Append(@, what),
                        !.pos = @ + 1,
                        !.gen_after_stop = @ \/ (generated /\ L.stopped)]
    IN  IF what = "error" THEN [L1 EXCEPT !.pc = "exited"]
        ELSE IF L.pos >= Len(AllPairs(config)) THEN EndOfTick(L1) ELSE L1

AfterPair(L, what, generated) ==
    LET L1 == [L EXCEPT !.outcome = Append(@, what),
                        !.pos = @ + 1,
                        !.gen_after_stop = @ \/ (generated /\ L.stopped)]
    IN  IF L.pos >= Len(AllPairs(config)) THEN EndOfTick(L1) ELSE L1

NoteGeneration_Shared(times, d, name, t) ==
    [e \in DOMAIN times |->
        IF e = d \/ name \in DOMAIN times[e] THEN Put(times[e], name, t) ELSE times[e]]

\* device._last_generation_times[data_type_name] = current_time: the dict is
\* an attribute of the one device object
NoteGeneration(times, d, name, t) == [times EXCEPT ![d] = Put(@, name, t)]

FieldStep_MarkingFailure(l) ==
    /\ loops[l].pc = "fields"
    /\ LET L == loops[l]
           d == AllPairs(config)[L.pos][1]
           data_type_name == AllPairs(config)[L.pos][2]
           data_config == FirstConfig(DeviceDef(config, d), data_type_name)
           current_time == now
           last_time == Get(last_generation_times[d], data_type_name, 0)
       IN  IF current_time - last_time >= generation_interval(data_config)
           THEN \/ \E o \in generate_device_data(d, data_type_name, now, now) :
                     /\ generators' = [generators EXCEPT ![d][data_type_name] = o.gen]
                     /\ latest_data' = [latest_data EXCEPT ![d] =
                            Put(@, data_type_name,
                                DeviceData(d, o.timestamp, data_type_name, o.value))]
                     /\ last_generation_times' =
                            NoteGeneration(last_generation_times, d, data_type_name,
                                           current_time)
                     /\ loops' = [loops EXCEPT ![l] = AfterPair(L, "ok", TRUE)]
                     /\ UNCHANGED faults
                \/ \* generate_device_data raises: logged, nothing recorded
                   /\ faults < MaxFaults
                   /\ faults' = faults + 1
                   /\ loops' = [loops EXCEPT ![l] = AfterPair(L, "error", FALSE)]
                   /\ last_generation_times' =
                          NoteGeneration(last_generation_times, d, data_type_name,
                                         current_time)
                   /\ UNCHANGED <<generators, latest_data>>
           ELSE /\ loops' = [loops EXCEPT ![l] = AfterPair(L, "notdue", FALSE)]
                /\ UNCHANGED <<generators, latest_data, last_generation_times, faults>>
    /\ UNCHANGED <<config, running>>
    /\ UNCHANGED <<now, de_generators>>
    /\ UNCHANGED histVars
    /\ UNCHANGED sinkVars
    /\ UNCHANGED taskVars

\* one pass of the inner for-loop body (try / except Exception) for the
\* pair at L.pos
FieldStep(l) ==
    /\ loops[l].pc = "fields"
    /\ LET L == loops[l]
           d == AllPairs(config)[L.pos][1]
           data_type_name == AllPairs(config)[L.pos][2]
           data_config == FirstConfig(DeviceDef(config, d), data_type_name)
           current_time == now
           last_time == Get(last_generation_times[d], data_type_name, 0)
       IN  IF current_time - last_time >= generation_interval(data_config)
           THEN \/ \E o \in generate_device_data(d, data_type_name, now, now) :
                     /\ generators' = [generators EXCEPT ![d][data_type_name] = o.gen]
                     /\ latest_data' = [latest_data EXCEPT ![d] =
                            Put(@, data_type_name,
                                DeviceData(d, o.timestamp, data_type_name, o.value))]
                     /\ last_generation_times' =
                            NoteGeneration(last_generation_times, d, data_type_name,
                                           current_time)
                     /\ loops' = [loops EXCEPT ![l] = AfterPair(L, "ok", TRUE)]
                     /\ UNCHANGED faults
                \/ \* generate_device_data raises: logged, nothing recorded
                   /\ faults < MaxFaults
                   /\ faults' = faults + 1
                   /\ loops' = [loops EXCEPT ![l] = AfterPair(L, "error", FALSE)]
                   /\ UNCHANGED <<generators, latest_data, last_generation_times>>
           ELSE /\ loops' = [loops EXCEPT ![l] = AfterPair(L, "notdue", FALSE)]
                /\ UNCHANGED <<generators, latest_data, last_generation_times, faults>>
    /\ UNCHANGED <<config, running>>
    /\ UNCHANGED <<now, de_generators>>
    /\ UNCHANGED histVars
    /\ UNCHANGED sinkVars
    /\ UNCHANGED taskVars

\* asyncio.sleep(sleep_time) returns once the clock has reached wake_at and
\* the event loop is free; the loop then tests `while self.running`
Wake(l, limit) ==
    /\ loops[l].pc = "sleep"
    /\ ~Busy
    /\ Max2(now, loops[l].wake_at) <= limit
    /\ now' = Max2(now, loops[l].wake_at)
    /\ loops' = [loops EXCEPT ![l] = WhileRunning(@, Max2(now, loops[l].wake_at))]
    /\ UNCHANGED <<config, generators, last_generation_times, latest_data, running, faults>>
    /\ UNCHANGED de_generators
    /\ UNCHANGED histVars
    /\ UNCHANGED sinkVars
    /\ UNCHANGED taskVars

----------------------------------------------------------------------------
(* The emulation loop under start / stop / restart and generation errors *)

\* tick intervals of wall-clock time the loop model covers
MaxTicks == 3

LoopHorizon == Epoch + MaxTicks * DefaultSleepMs

\* two devices; "level" is sampled at 5 Hz, the other fields at 10 Hz
LoopFleet ==
    << Dev("d1", << FieldCfg("temp", DataType_FLOAT, 0, 8, 10000, 0, Some(2), 0, 10),
                    FieldCfg("level", DataType_INTEGER, 0, 4, 5000, 0, Some(2), 0, 0) >>),
       Dev("d2", << FieldCfg("door", DataType_BOOLEAN, 0, 2, 10000, 20, None, 0, 0) >>) >>

InitLoop ==
    /\ SimpleEmulatorInit(LoopFleet, Epoch)
    /\ now = Epoch
    /\ de_generators = <<>>
    /\ last_call = NoCall
    /\ produced = <<>>
    /\ samples = <<>>
    /\ reply = NoReply
    /\ NoConnection
    /\ SinkIdle
    /\ NoTasks

LoopChecks == \E l \in DOMAIN loops : LoopCheck(l)

FieldSteps == \E l \in DOMAIN loops : FieldStep(l)

Wakes == \E l \in DOMAIN loops : Wake(l, LoopHorizon)

NextLoop ==
    /\ \/ Start
       \/ Stop
       \/ LoopChecks
       \/ FieldSteps
       \/ Wakes
    /\ UNCHANGED <<samples, reply, ws, inflight>>

SpecLoop == InitLoop /\ [][NextLoop]_vars

----------------------------------------------------------------------------
(* Properties of the emulation loop *)

\* loop l executed the inner for-loop body for one pair in this step
VisitedPair(l) ==
    /\ l \in DOMAIN loops
    /\ loops[l].pc = "fields"
    /\ loops'[l].pos = loops[l].pos + 1

\* the pair loop l is about to visit was due at the current time
DueNow(l) ==
    LET d == AllPairs(config)[loops[l].pos][1]
        n == AllPairs(config)[loops[l].pos][2]
    IN  now - Get(last_generation_times[d], n, 0)
          >= generation_interval(FirstConfig(DeviceDef(config, d), n))

\* the pair loop l visited in this step was generated and recorded
RecordedNow(l) ==
    LET d == AllPairs(config)[loops[l].pos][1]
        n == AllPairs(config)[loops[l].pos][2]
    IN  /\ n \in DOMAIN latest_data'[d]
        /\ latest_data'[d][n].timestamp = now
        /\ latest_data'[d][n].device_id = d
        /\ latest_data'[d][n].data_type = n
        /\ generators'[d][n].last_update = now
        /\ Get(last_generation_times'[d], n, 0) = now

\* C5: a generation error skips only the field that raised it: the loop
\* moves on to the next pair, every due pair that does not raise is
\* generated and recorded in the same tick, a finished tick has visited
\* every pair, and a loop exits only after a stop request
C5_ErrorSkipsOneField ==
    /\ [](\A l \in DOMAIN loops :
            /\ loops[l].pc = "exited" => loops[l].stopped
            /\ (loops[l].pc = "sleep" \/ (loops[l].pc = "check" /\ loops[l].pos > 0))
                 => Len(loops[l].outcome) = Len(AllPairs(config)))
    /\ [][\A l \in DOMAIN loops :
            VisitedPair(l) =>
              /\ loops'[l].pc # "exited"
              /\ (DueNow(l) /\ faults' = faults) => RecordedNow(l)
              /\ faults' # faults =>
                   /\ loops'[l].outcome = Append(loops[l].outcome, "error")
                   /\ <<generators, latest_data, last_generation_times>>' =
                        <<generators, latest_data, last_generation_times>>]_vars

\* a tick went on after its first field raised an error: the later fields
\* of both devices were visited and the last one was generated
C5_Witness ==
    \E l \in DOMAIN loops :
        /\ loops[l].pc = "sleep"
        /\ Len(loops[l].outcome) = 3
        /\ loops[l].outcome[1] = "error"
        /\ loops[l].outcome[3] = "ok"
        /\ "door" \in DOMAIN latest_data["d2"]

\* C6: start() on a running emulator fails and never adds a second loop:
\* at most one emulation loop is alive at any time
C6_SingleLoop == Cardinality({l \in DOMAIN loops : Alive(l)}) <= 1

\* C7: once stop() has returned the loop generates no further field
C7_NoGenerationAfterStop == \A l \in DOMAIN loops : ~loops[l].gen_after_stop

\* C8: after a stop request the loop starts no new tick
C8_NoTickAfterStop == \A l \in DOMAIN loops : ~loops[l].tick_after_stop

\* C9: start() enters a fresh Running state (running set, a new loop about
\* to test the flag) and, like stop(), leaves every field's current value,
\* last-update time and drift offset as they were
C9_RestartKeepsGenerators ==
    [][/\ Len(loops') # Len(loops) =>
            /\ running'
            /\ loops'[Len(loops')] = NewLoop(config)
            /\ generators' = generators
       /\ running' # running => generators' = generators]_vars

\* the emulator was restarted after a completed stop(): the first loop has
\* exited, a second one exists, and the drift accumulated by "temp" in the
\* first run is still there
C9_Witness ==
    /\ Len(loops) = 2
    /\ loops[1].pc = "exited"
    /\ loops[1].stopped
    /\ loops[2].pc = "check"
    /\ running
    /\ generators["d1"]["temp"].drift_offset > 0
    /\ generators["d1"]["temp"].last_update > Epoch

----------------------------------------------------------------------------
(* Sampling frequency: one emulation loop run for a fixed time, no errors,
   ticks that take no time and sleeps that end exactly on time *)

\* seconds the frequency run lasts
FreqRunSeconds == 10

FreqHorizon == Epoch + FreqRunSeconds * MsPerSecond

\* the 2 Hz field whose samples are counted
TwoHz == FieldCfg("temp", DataType_FLOAT, 0, 8, 2000, 0, Some(2), 0, 0)

\* fleets that hold the 2 Hz field: alone, beside a 4 Hz field, beside a
\* second device sampled at 10.1 Hz, beside a field with no frequency
FreqFleets ==
    { << Dev("d1", << TwoHz >>) >>,
      << Dev("d1", << TwoHz, FieldCfg("level", DataType_FLOAT, 0, 8, 4000, 0, Some(2), 0, 0) >>) >>,
      << Dev("d1", << TwoHz >>),
         Dev("d2", << FieldCfg("flow", DataType_FLOAT, 0, 8, 10101, 0, Some(2), 0, 0) >>) >>,
      << Dev("d1", << TwoHz, FieldCfg("mode", DataType_FLOAT, 0, 8, 0, 0, Some(2), 0, 0) >>) >> }

InitFreq ==
    /\ \E fleet \in FreqFleets : SimpleEmulatorInit(fleet, Epoch)
    /\ now = Epoch
    /\ de_generators = <<>>
    /\ last_call = NoCall
    /\ produced = <<>>
    /\ samples = [k \in {AllPairs(config)[i] : i \in DOMAIN AllPairs(config)} |-> 0]
    /\ reply = NoReply
    /\ NoConnection
    /\ SinkIdle
    /\ NoTasks

\* the single start() of the run
StartOnce == Len(loops) = 0 /\ Start

FreqLoopChecks == \E l \in DOMAIN loops : LoopCheck(l)

\* a pair is visited and nothing raises
FreqFieldSteps == (\E l \in DOMAIN loops : FieldStep(l)) /\ faults' = faults

FreqWakes == \E l \in DOMAIN loops : Wake(l, FreqHorizon)

\* every sample the loop stores as latest data is counted
CountSamples ==
    samples' = [k \in DOMAIN samples |->
                  IF latest_data'[k[1]] # latest_data[k[1]]
                     /\ k[2] \in DOMAIN latest_data'[k[1]]
                     /\ Get(latest_data[k[1]], k[2], None) # latest_data'[k[1]][k[2]]
                  THEN samples[k] + 1 ELSE samples[k]]

NextFreq ==
    /\ \/ StartOnce
       \/ FreqLoopChecks
       \/ FreqFieldSteps
       \/ FreqWakes
    /\ CountSamples
    /\ UNCHANGED <<reply, ws, inflight>>

SpecFreq == InitFreq /\ [][NextFreq]_vars

\* the run is over: the loop sleeps and would wake after the horizon
RunOver ==
    /\ Len(loops) = 1
    /\ loops[1].pc = "sleep"
    /\ loops[1].wake_at > FreqHorizon

\* C3: a 2 Hz field driven by the loop for 10 seconds has between 18 and
\* 22 samples recorded, whatever else is configured in the fleet
C3_TwoHzSampleCount ==
    RunOver => /\ samples[<<"d1", "temp">>] >= 18
               /\ samples[<<"d1", "temp">>] <= 22

----------------------------------------------------------------------------
(* On-demand generation: SimpleEmulator.generate_data_for_device,
   SimpleDevice.generate_device_data and DeviceEmulator.generate_single_data
   on emulators that are constructed and not started *)

\* seconds of wall-clock time the on-demand model covers
OnDemandSeconds == 1

OnDemandHorizon == Epoch + OnDemandSeconds * MsPerSecond

generate_data_for_device_Storing(device_id, data_type_name) ==
    /\ IF device_id \notin DOMAIN generators
       THEN /\ last_call' = Call("generate_data_for_device", device_id, data_type_name,
                                 "None", None, None, 0, None)
            /\ UNCHANGED <<generators, latest_data, now>>
       ELSE IF \A k \in DOMAIN get_available_data_types(DeviceDef(config, device_id)) :
                 get_available_data_types(DeviceDef(config, device_id))[k] # data_type_name
       THEN /\ last_call' = Call("generate_data_for_device", device_id, data_type_name,
                                 "None", None, None, 0, None)
            /\ latest_data' = [latest_data EXCEPT ![device_id] = Put(@, data_type_name, None)]
            /\ UNCHANGED <<generators, now>>
       ELSE \E now2 \in ClockReads(now, OnDemandHorizon) :
            \E o \in generate_device_data(device_id, data_type_name, now, now2) :
              IF o.status = "ok"
              THEN /\ generators' = [generators EXCEPT ![device_id][data_type_name] = o.gen]
                   /\ now' = now2
                   /\ last_call' = Call("generate_data_for_device", device_id,
                                        data_type_name, "ok", Some(o.value), None,
                                        now2 - generators[device_id][data_type_name].last_update,
                                        Some(generators[device_id][data_type_name].config))
                   /\ UNCHANGED latest_data
              ELSE /\ last_call' = Call("generate_data_for_device", device_id,
                                        data_type_name, "None", None, None, 0, None)
                   /\ UNCHANGED <<generators, latest_data, now>>
    /\ UNCHANGED <<config, last_generation_times, running, loops, faults>>
    /\ UNCHANGED <<de_generators, produced>>
    /\ UNCHANGED sinkVars
    /\ UNCHANGED taskVars

\* SimpleEmulator.generate_data_for_device(device_id, data_type_name): None
\* for an unknown device or field and when generation raises, else the
\* DeviceData of one generate_device_data call
generate_data_for_device(device_id, data_type_name) ==
    /\ IF device_id \notin DOMAIN generators
       THEN /\ last_call' = Call("generate_data_for_device", device_id, data_type_name,
                                 "None", None, None, 0, None)
            /\ UNCHANGED <<generators, latest_data, now>>
       ELSE IF \A k \in DOMAIN get_available_data_types(DeviceDef(config, device_id)) :
                 get_available_data_types(DeviceDef(config, device_id))[k] # data_type_name
       THEN /\ last_call' = Call("generate_data_for_device", device_id, data_type_name,
                                 "None", None, None, 0, None)
            /\ UNCHANGED <<generators, latest_data, now>>
       ELSE \E now2 \in ClockReads(now, OnDemandHorizon) :
            \E o \in generate_device_data(device_id, data_type_name, now, now2) :
              IF o.status = "ok"
              THEN /\ generators' = [generators EXCEPT ![device_id][data_type_name] = o.gen]
                   /\ now' = now2
                   /\ last_call' = Call("generate_data_for_device", device_id,
                                        data_type_name, "ok", Some(o.value), None,
                                        now2 - generators[device_id][data_type_name].last_update,
                                        Some(generators[device_id][data_type_name].config))
                   /\ UNCHANGED latest_data
              ELSE /\ last_call' = Call("generate_data_for_device", device_id,
                                        data_type_name, "None", None, None, 0, None)
                   /\ UNCHANGED <<generators, latest_data, now>>
    /\ UNCHANGED <<config, last_generation_times, running, loops, faults>>
    /\ UNCHANGED <<de_generators, produced>>
    /\ UNCHANGED sinkVars
    /\ UNCHANGED taskVars

\* SimpleDevice.generate_device_data(name) called on the device itself
device_generate_device_data(device_id, name) ==
    /\ \E now2 \in ClockReads(now, OnDemandHorizon) :
       \E o \in generate_device_data(device_id, name, now, now2) :
         IF o.status = "ok"
         THEN /\ generators' = [generators EXCEPT ![device_id][name] = o.gen]
              /\ now' = now2
              /\ last_call' = Call("generate_device_data", device_id, name, "ok",
                                   Some(o.value), None,
                                   now2 - generators[device_id][name].last_update,
                                   Some(generators[device_id][name].config))
         ELSE /\ last_call' = Call("generate_device_data", device_id, name, o.status,
                                   None, None, 0, None)
              /\ UNCHANGED <<generators, now>>
    /\ UNCHANGED <<config, last_generation_times, latest_data, running, loops, faults>>
    /\ UNCHANGED <<de_generators, produced>>
    /\ UNCHANGED sinkVars
    /\ UNCHANGED taskVars

\* one device with two fields, a second device with one
OnDemandFleet ==
    << Dev("d1", << FieldCfg("temp", DataType_FLOAT, 0, 2, 1000, 2, Some(1), 0, 0),
                    FieldCfg("door", DataType_BOOLEAN, 0, 2, 1000, 2, None, 0, 0) >>),
       Dev("d2", << FieldCfg("temp", DataType_FLOAT, 0, 2, 1000, 0, Some(1), 0, 0) >>) >>

OnDemandDeviceConfig == FieldCfg("f", DataType_INTEGER, 0, 4, 1000, 0, Some(2), 0, 0)

InitOnDemand ==
    /\ SimpleEmulatorInit(OnDemandFleet, Epoch)
    /\ \E v \in InitialValues(OnDemandDeviceConfig) :
         DeviceEmulatorInit(OnDemandDeviceConfig, v)
    /\ now = Epoch
    /\ last_call = NoCall
    /\ produced = [k \in {<<DeviceEmulatorId, n>> : n \in DOMAIN de_generators} |-> None]
    /\ samples = <<>>
    /\ reply = NoReply
    /\ NoConnection
    /\ SinkIdle
    /\ NoTasks

EmulatorGenerate ==
    \E d \in DOMAIN generators \cup {UnknownName} :
    \E n \in {"temp", "door", UnknownName} : generate_data_for_device(d, n)

DeviceGenerate ==
    \E d \in DOMAIN generators :
    \E n \in {"temp", "door", UnknownName} : device_generate_device_data(d, n)

SingleGenerate ==
    \E n \in {"f", UnknownName} : generate_single_data(n, OnDemandHorizon)

OnDemandElapse ==
    /\ now + MsPerSecond <= OnDemandHorizon
    /\ Elapse

NextOnDemand ==
    /\ \/ EmulatorGenerate
       \/ DeviceGenerate
       \/ SingleGenerate
       \/ OnDemandElapse
    /\ UNCHANGED <<samples, reply, ws, inflight>>

SpecOnDemand == InitOnDemand /\ [][NextOnDemand]_vars

\* the field last_call names exists
CallKnown(c) ==
    IF c.op = "generate_single_data" THEN c.name \in DOMAIN de_generators
    ELSE c.device \in DOMAIN generators /\ c.name \in DOMAIN generators[c.device]

\* the generator last_call names
CallGenerator(c) ==
    IF c.op = "generate_single_data" THEN de_generators[c.name]
    ELSE generators[c.device][c.name]

\* generator state with the generator last_call names replaced by g
WithGenerator(c, g) ==
    IF c.op = "generate_single_data"
    THEN <<generators, [de_generators EXCEPT ![c.name] = g]>>
    ELSE <<[generators EXCEPT ![c.device][c.name] = g], de_generators>>

\* the result of the last call matches whether the name exists: a value for
\* a known name, ValueError from the device and None from the emulators
\* otherwise
NotFoundResult ==
    last_call.op # "none" =>
      /\ last_call.status = "ok" <=> CallKnown(last_call)
      /\ last_call.status = "ok" <=> ~ IsNone(last_call.value)
      /\ ~ CallKnown(last_call) =>
           last_call.status = (IF last_call.op = "generate_device_data"
                               THEN "ValueError" ELSE "None")

\* a step that ends in a not-found result changes no generator and no
\* latest data
NotFoundChangesNothing ==
    last_call'.status # "ok" =>
      /\ generators' = generators
      /\ de_generators' = de_generators
      /\ latest_data' = latest_data

\* a step that changes a generator or returns a new result for a known name
\* is one generate_data_point of the named generator: that generator takes
\* the outcome's state, the call returns the outcome's value, every other
\* generator and the latest data stay
KnownGeneratesOnce ==
    ( /\ last_call'.status = "ok"
      /\ \/ last_call' # last_call
         \/ generators' # generators
         \/ de_generators' # de_generators )
    => /\ CallKnown(last_call')
       /\ \E o \in generate_data_point(CallGenerator(last_call'), now, now') :
            /\ <<generators', de_generators'>> = WithGenerator(last_call', o.gen)
            /\ last_call'.value = Some(o.value)
       /\ latest_data' = latest_data

\* C10: generating by an unknown field name or device id gives the
\* not-found result (ValueError from SimpleDevice.generate_device_data, None
\* from SimpleEmulator.generate_data_for_device and
\* DeviceEmulator.generate_single_data) and changes no generator state and
\* no latest data; for a known name the named generator is invoked exactly
\* once and its new sample is returned
C10_OnDemandGeneration ==
    /\ [] NotFoundResult
    /\ [][NotFoundChangesNothing /\ KnownGeneratesOnce]_vars

\* C10 witness: a device call has just failed on an unknown name after
\* fields of both emulators were generated on demand at a later time
C10_Witness ==
    /\ last_call.op = "generate_device_data"
    /\ last_call.status = "ValueError"
    /\ last_call.name = UnknownName
    /\ "d1" \in DOMAIN generators
    /\ "temp" \in DOMAIN generators["d1"]
    /\ generators["d1"]["temp"].last_update > Epoch
    /\ "f" \in DOMAIN de_generators
    /\ de_generators["f"].last_update > Epoch

----------------------------------------------------------------------------
(* The API side of SimpleEmulator: generate_data_for_all_devices,
   get_latest_data and the REST handlers, next to the emulation loop *)

\* tick intervals of wall-clock time the API model covers
ApiTicks == 2

ApiHorizon == Epoch + ApiTicks * DefaultSleepMs

\* the result and the log before the first pair is visited
NoneGenerated ==
    [gens |-> generators, all_data |-> <<>>, errors |-> <<>>, faults |-> faults]

generate_all_step_Dropping(p, pr, t) ==
    LET d == pr[1]
        name == pr[2]
    IN  {[gens |-> [p.gens EXCEPT ![d][name] = o.gen],
          all_data |-> Put(p.all_data, d,
                           Put(Get(p.all_data, d, <<>>), name,
                               DeviceData(d, o.timestamp, name, o.value))),
          errors |-> p.errors,
          faults |-> p.faults] : o \in generate_data_point(p.gens[d][name], t, t)}
        \cup
        (IF p.faults < MaxFaults
         THEN {[gens |-> p.gens,
                all_data |-> Put(p.all_data, d, <<>>),
                errors |-> Append(p.errors, pr),
                faults |-> p.faults + 1]}
         ELSE {})

\* body of the inner for-loop of generate_data_for_all_devices for the pair
\* pr, from the intermediate result p: the field is generated and put into
\* its device's entry, or generate_device_data raises and the error is
\* logged (all_data[device_id] is assigned after the inner loop; every
\* device has at least one field, so it is assigned for every device)
generate_all_step(p, pr, t) ==
    LET d == pr[1]
        name == pr[2]
    IN  {[gens |-> [p.gens EXCEPT ![d][name] = o.gen],
          all_data |-> Put(p.all_data, d,
                           Put(Get(p.all_data, d, <<>>), name,
                               DeviceData(d, o.timestamp, name, o.value))),
          errors |-> p.errors,
          faults |-> p.faults] : o \in generate_data_point(p.gens[d][name], t, t)}
        \cup
        (IF p.faults < MaxFaults
         THEN {[gens |-> p.gens,
                all_data |-> Put(p.all_data, d, Get(p.all_data, d, <<>>)),
                errors |-> Append(p.errors, pr),
                faults |-> p.faults + 1]}
         ELSE {})

\* the two nested for-loops over the first n pairs, in listing order
RECURSIVE generate_all_outcomes(_, _)
generate_all_outcomes(n, t) ==
    IF n = 0 THEN {NoneGenerated}
    ELSE UNION {generate_all_step(p, AllPairs(config)[n], t) :
                  p \in generate_all_outcomes(n - 1, t)}

generate_data_for_all_devices_Recording ==
    /\ ~Busy
    /\ \E p \in generate_all_outcomes(Len(AllPairs(config)), now) :
         /\ generators' = p.gens
         /\ faults' = p.faults
         /\ reply' = Reply("generate_data_for_all_devices", "", "", p.all_data, p.errors)
         /\ latest_data' = [d \in DOMAIN latest_data |-> Get(p.all_data, d, latest_data[d])]
    /\ UNCHANGED <<config, last_generation_times, running, loops>>
    /\ UNCHANGED <<now, de_generators, samples, ws, inflight>>
    /\ UNCHANGED histVars
    /\ UNCHANGED sinkVars
    /\ UNCHANGED taskVars

\* SimpleEmulator.generate_data_for_all_devices(), a plain function: it
\* runs to its end while no coroutine of the event loop is executing
generate_data_for_all_devices ==
    /\ ~Busy
    /\ \E p \in generate_all_outcomes(Len(AllPairs(config)), now) :
         /\ generators' = p.gens
         /\ faults' = p.faults
         /\ reply' = Reply("generate_data_for_all_devices", "", "", p.all_data, p.errors)
    /\ UNCHANGED <<config, last_generation_times, latest_data, running, loops>>
    /\ UNCHANGED <<now, de_generators, samples, ws, inflight>>
    /\ UNCHANGED histVars
    /\ UNCHANGED sinkVars
    /\ UNCHANGED taskVars

\* device "d1" with two fields and a device whose id is the empty string
\* (device_id is any str); every field is sampled at 10 Hz
ApiFleet ==
    << Dev("d1", << FieldCfg("temp", DataType_FLOAT, 0, 2, 10000, 20, Some(1), 0, 0),
                    FieldCfg("door", DataType_BOOLEAN, 0, 2, 10000, 0, None, 0, 0) >>),
       Dev("", << FieldCfg("temp", DataType_INTEGER, 0, 4, 10000, 0, Some(2), 0, 0) >>) >>

InitApi ==
    /\ SimpleEmulatorInit(ApiFleet, Epoch)
    /\ now = Epoch
    /\ de_generators = <<>>
    /\ last_call = NoCall
    /\ produced = <<>>
    /\ samples = <<>>
    /\ reply = NoReply
    /\ NoConnection
    /\ SinkIdle
    /\ NoTasks

ApiLoopChecks == \E l \in DOMAIN loops : LoopCheck(l)

ApiFieldSteps == \E l \in DOMAIN loops : FieldStep(l)

ApiWakes == \E l \in DOMAIN loops : Wake(l, ApiHorizon)

\* the emulation loop, started once
ApiLoop ==
    /\ \/ StartOnce
       \/ ApiLoopChecks
       \/ ApiFieldSteps
       \/ ApiWakes
    /\ UNCHANGED <<samples, reply, ws, inflight>>

\* Python truth value of an optional str argument: None and "" are false
Truthy(arg) == ~ IsNone(arg) /\ TheValue(arg) # ""

\* what get_latest_data hands back: a DeviceData, None, one device's dict
\* or the whole latest_data dict
Returned(kind, value) == [kind |-> kind, value |-> value]

\* dict.get(key) of a dict of DeviceData
GetSample(dict, key) ==
    IF key \in DOMAIN dict THEN Returned("sample", dict[key]) ELSE Returned("none", <<>>)

\* SimpleEmulator.get_latest_data(device_id=None, data_type=None)
get_latest_data(device_id, data_type) ==
    IF Truthy(device_id)
    THEN IF Truthy(data_type)
         THEN GetSample(Get(latest_data, TheValue(device_id), <<>>), TheValue(data_type))
         ELSE Returned("device", Get(latest_data, TheValue(device_id), <<>>))
    ELSE Returned("all", latest_data)

\* a caller asks for the latest sample of (device_id, data_type)
GetLatest(device_id, data_type) ==
    /\ ~Busy
    /\ reply' = Reply("get_latest_data", device_id, data_type,
                      get_latest_data(Some(device_id), Some(data_type)), <<>>)
    /\ UNCHANGED emuVars
    /\ UNCHANGED <<now, de_generators, samples, ws, inflight>>
    /\ UNCHANGED histVars
    /\ UNCHANGED sinkVars
    /\ UNCHANGED taskVars

\* ids and names callers ask for: the configured ones and an unknown one
AskedDevices == DeviceIds(config) \cup {UnknownName}

AskedFields == {AllPairs(config)[k][2] : k \in DOMAIN AllPairs(config)} \cup {UnknownName}

GetLatests == \E d \in AskedDevices : \E n \in AskedFields : GetLatest(d, n)

NextApi ==
    \/ ApiLoop
    \/ generate_data_for_all_devices
    \/ GetLatests

SpecApi == InitApi /\ [][NextApi]_vars

\* position of a pair in the listing order
ListingIndex(pr) == PairIndex(config, pr[1], pr[2])

\* the pair is among the logged errors
Logged(errors, pr) == \E i \in DOMAIN errors : errors[i] = pr

\* this step is a generate_data_for_all_devices call that returned
\* something new or changed a generator
GenerateAllStep ==
    /\ reply'.op = "generate_data_for_all_devices"
    /\ loops' = loops
    /\ reply' # reply \/ generators' # generators

\* what C11 says of one generate_data_for_all_devices call
GenerateAllContract ==
    LET r == reply'.result
        errors == reply'.errors
        pairs == AllPairs(config)
    IN  /\ DOMAIN r = DeviceIds(config)
        /\ \A i, j \in DOMAIN errors :
             i < j => ListingIndex(errors[i]) < ListingIndex(errors[j])
        /\ \A i \in DOMAIN errors : \E k \in DOMAIN pairs : pairs[k] = errors[i]
        /\ \A k \in DOMAIN pairs :
             LET d == pairs[k][1]
                 n == pairs[k][2]
             IN  IF Logged(errors, pairs[k])
                 THEN /\ n \notin DOMAIN r[d]
                      /\ generators'[d][n] = generators[d][n]
                 ELSE /\ n \in DOMAIN r[d]
                      /\ \E o \in generate_data_point(generators[d][n], now, now) :
                           /\ generators'[d][n] = o.gen
                           /\ r[d][n] = DeviceData(d, o.timestamp, n, o.value)

\* C11: generate_data_for_all_devices generates every field of every device
\* once, in listing order; a field whose generation fails is logged and
\* left out, and every other field of that device and of every other
\* device is still generated and present in the result
C11_GenerateAllPartialFailure == [][GenerateAllStep => GenerateAllContract]_vars

\* C11 witness: the first field of "d1" failed; its second field and the
\* other device's field were generated after it and are in the result
C11_Witness ==
    /\ reply.op = "generate_data_for_all_devices"
    /\ reply.errors = << <<"d1", "temp">> >>
    /\ "door" \in DOMAIN reply.result["d1"]
    /\ "temp" \in DOMAIN reply.result[""]
    /\ generators["d1"]["door"].last_update > Epoch

\* the loop has recorded a sample for (d, n)
Recorded(d, n) == d \in DOMAIN latest_data /\ n \in DOMAIN latest_data[d]

\* a step that changes latest_data records exactly one sample, the one
\* generated in this step for one (device, field), stamped with the time of
\* its generation
RecordsNewest ==
    latest_data' # latest_data =>
      \E k \in DOMAIN AllPairs(config) :
        LET d == AllPairs(config)[k][1]
            n == AllPairs(config)[k][2]
        IN  /\ n \in DOMAIN latest_data'[d]
            /\ latest_data' = [latest_data EXCEPT ![d] = Put(@, n, latest_data'[d][n])]
            /\ latest_data'[d][n].device_id = d
            /\ latest_data'[d][n].data_type = n
            /\ latest_data'[d][n].timestamp = now
            /\ generators'[d][n].last_update = now

\* a get_latest_data(device, field) query returns the stored sample of that
\* (device, field), or None when there is none
ReturnsOwnSample ==
    (reply'.op = "get_latest_data" /\ reply' # reply) =>
      IF Recorded(reply'.device, reply'.name)
      THEN reply'.result = Returned("sample", latest_data[reply'.device][reply'.name])
      ELSE reply'.result = Returned("none", <<>>)

\* C12: latest(device, field) returns the sample most recently recorded for
\* that (device, field), or a not-found result when the device or field is
\* unknown or nothing was recorded yet; never anything of another device
\* or field
C12_LatestSample == [][RecordsNewest /\ ReturnsOwnSample]_vars

\* the same for callers that pass a non-empty device id and field name
C12_LatestSampleNonEmpty ==
    [][RecordsNewest /\ (reply'.device # "" => ReturnsOwnSample)]_vars

----------------------------------------------------------------------------
(* The data sink under recording, import, clearing and range queries *)

\* number of samples the sink model records
MaxSinkRecords == 3

\* seconds after Epoch a recorded sample may be stamped with
MaxStamp == 2

SinkDevices == {"a", "b"}

SinkFields == {"x", "y"}

Stamps == {Epoch + k * MsPerSecond : k \in 0 .. MaxStamp}

\* DataPoint(value, timestamp)
DataPoint(value, timestamp) == [value |-> value, timestamp |-> timestamp]

\* payloads of process_data_batch and import_data: sequences of at most two
\* samples, as (device id, field, DataPoint); the k-th sample ever recorded
\* carries the value k, timestamps are whatever the payload says
Payloads ==
    {<< <<d, f, DataPoint(inserted + 1, t)>> >> :
        d \in SinkDevices, f \in SinkFields, t \in Stamps}
    \cup
    {<< <<d, f, DataPoint(inserted + 1, t1)>>, <<d2, f, DataPoint(inserted + 2, t2)>> >> :
        d \in SinkDevices, d2 \in SinkDevices, f \in SinkFields, t1 \in Stamps, t2 \in Stamps}

\* the streams after the first n entries of a payload were recorded
RECURSIVE RecordAll(_, _, _)
RecordAll(streams, payload, n) ==
    IF n = 0 THEN streams
    ELSE RecordInto(RecordAll(streams, payload, n - 1),
                    payload[n][1], payload[n][2], payload[n][3])

\* DataManager.process_data_batch(data) for a payload whose entries belong
\* to different devices, or is a single entry
BatchRecorded(payload) ==
    /\ inserted + Len(payload) <= MaxSinkRecords
    /\ Len(payload) = 2 => payload[1][1] # payload[2][1]
    /\ data_streams' = RecordAll(data_streams, payload, Len(payload))
    /\ inserted' = inserted + Len(payload)
    /\ reply' = Reply("process_data_batch", None, None, <<>>, <<>>)

\* DataManager.import_data(data) for an export that holds one series with
\* one or two data points
Imported(payload) ==
    /\ inserted + Len(payload) <= MaxSinkRecords
    /\ Len(payload) = 2 => payload[1][1] = payload[2][1]
    /\ data_streams' = RecordAll(data_streams, payload, Len(payload))
    /\ inserted' = inserted + Len(payload)
    /\ reply' = Reply("import_data", None, None, <<>>, <<>>)

\* a dict without one key
Without(dict, key) == [k \in DOMAIN dict \ {key} |-> dict[k]]

clear_data_Device(device_id, data_type) ==
    IF IsNone(device_id) THEN <<>>
    ELSE IF IsNone(data_type)
    THEN IF TheValue(device_id) \in DOMAIN data_streams
         THEN Without(data_streams, TheValue(device_id))
         ELSE data_streams
    ELSE IF /\ TheValue(device_id) \in DOMAIN data_streams
            /\ TheValue(data_type) \in DOMAIN data_streams[TheValue(device_id)]
         THEN Without(data_streams, TheValue(device_id))
         ELSE data_streams

\* DataManager.clear_data(device_id=None, data_type=None): the streams it
\* leaves
clear_data(device_id, data_type) ==
    IF IsNone(device_id) THEN <<>>
    ELSE IF IsNone(data_type)
    THEN IF TheValue(device_id) \in DOMAIN data_streams
         THEN Without(data_streams, TheValue(device_id))
         ELSE data_streams
    ELSE IF /\ TheValue(device_id) \in DOMAIN data_streams
            /\ TheValue(data_type) \in DOMAIN data_streams[TheValue(device_id)]
         THEN [data_streams EXCEPT ![TheValue(device_id)] = Without(@, TheValue(data_type))]
         ELSE data_streams

Cleared(device_id, data_type) ==
    /\ data_streams' = clear_data(device_id, data_type)
    /\ reply' = Reply("clear_data", device_id, data_type, <<>>, <<>>)
    /\ UNCHANGED inserted

\* DataStream.get_data_points_in_range(start_time, end_time)
get_data_points_in_range(stream, start_time, end_time) ==
    SelectSeq(stream.data_points,
              LAMBDA point : start_time <= point.timestamp /\ point.timestamp <= end_time)

\* DataStream.get_latest_data_point
get_latest_data_point(stream) ==
    IF Len(stream.data_points) > 0
    THEN Some(stream.data_points[Len(stream.data_points)])
    ELSE None

InitSink ==
    /\ SinkIdle
    /\ NoTasks
    /\ EmulatorIdle
    /\ de_generators = <<>>
    /\ now = Epoch
    /\ last_call = NoCall
    /\ produced = <<>>
    /\ samples = <<>>
    /\ reply = Reply("none", None, None, <<>>, <<>>)
    /\ NoConnection

SinkBatch == \E payload \in Payloads : BatchRecorded(payload)

SinkImport == \E payload \in Payloads : Imported(payload)

\* clear(), clear(device) and clear(device, field), for devices and fields
\* with and without series
SinkClear ==
    \/ Cleared(None, None)
    \/ \E d \in SinkDevices : Cleared(Some(d), None)
    \/ \E d \in SinkDevices : \E f \in SinkFields : Cleared(Some(d), Some(f))

NextSink ==
    /\ \/ SinkBatch
       \/ SinkImport
       \/ SinkClear
    /\ UNCHANGED <<now, de_generators, samples, ws, inflight>>
    /\ UNCHANGED emuVars
    /\ UNCHANGED histVars
    /\ UNCHANGED threadVars
    /\ UNCHANGED taskVars

SpecSink == InitSink /\ [][NextSink]_vars

\* the (device, field) pairs that have a series
Series(streams) ==
    UNION {{<<d, f>> : f \in DOMAIN streams[d]} : d \in DOMAIN streams}

\* positions of the stored samples of a series stamped within [lo, hi]
InRange(stream, lo, hi) ==
    {i \in DOMAIN stream.data_points :
       lo <= stream.data_points[i].timestamp /\ stream.data_points[i].timestamp <= hi}

\* the range query returns exactly the stored samples stamped within the
\* range (every sample has its own value)
RangeExact ==
    \A k \in Series(data_streams) : \A lo \in Stamps : \A hi \in Stamps :
      LET stream == data_streams[k[1]][k[2]]
          r == get_data_points_in_range(stream, lo, hi)
      IN  /\ Len(r) = Cardinality(InRange(stream, lo, hi))
          /\ {r[i] : i \in DOMAIN r} =
               {stream.data_points[i] : i \in InRange(stream, lo, hi)}

\* the range query returns them in ascending timestamp order
RangeAscending ==
    \A k \in Series(data_streams) : \A lo \in Stamps : \A hi \in Stamps :
      LET r == get_data_points_in_range(data_streams[k[1]][k[2]], lo, hi)
      IN  \A i, j \in DOMAIN r : i < j => r[i].timestamp <= r[j].timestamp

\* C13: range(device, field, start, end) returns exactly the stored samples
\* with start <= timestamp <= end, in ascending timestamp order, after any
\* sequence of add_data_point, process_data_batch and import_data
C13_RangeQuery == RangeExact /\ RangeAscending

\* the series a clear_data call names
Named(device_id, data_type) ==
    {k \in Series(data_streams) :
       /\ IsNone(device_id) \/ k[1] = TheValue(device_id)
       /\ IsNone(device_id) \/ IsNone(data_type) \/ k[2] = TheValue(data_type)}

\* C14: clear() removes every series, clear(device) exactly that device's
\* series, clear(device, field) exactly that one series; every series not
\* named keeps all its samples, and clearing what has no series changes
\* nothing
C14_ClearFrame ==
    [][reply'.op = "clear_data" =>
         /\ Series(data_streams') =
              Series(data_streams) \ Named(reply'.device, reply'.name)
         /\ \A k \in Series(data_streams') :
              data_streams'[k[1]][k[2]] = data_streams[k[1]][k[2]]]_vars

\* C14 witness: after clear("a", "x") of a sink that had received three
\* samples, the series ("a", "y") and ("b", "x") are there with their
\* samples and ("a", "x") is gone
C14_Witness ==
    /\ reply.op = "clear_data"
    /\ reply.device = Some("a")
    /\ reply.name = Some("x")
    /\ inserted = 3
    /\ Series(data_streams) = {<<"a", "y">>, <<"b", "x">>}
    /\ Len(data_streams["a"]["y"].data_points) = 1
    /\ Len(data_streams["b"]["x"].data_points) = 1

----------------------------------------------------------------------------
(* Coroutines of the emulator's event loop: the emulation loop, the
   per-field _data_generation_loop of DeviceEmulator and the
   _websocket_handler of RestApiServer.  A generate call is two steps, the
   read of the generator and the write of its new state; a coroutine keeps
   the event loop until it awaits something that suspends it *)

\* coroutine ids
LoopCoroutine == <<"loop", "">>

WsCoroutine == <<"ws", "">>

GenLoopCoroutine(name) == <<"gen", name>>

\* SimpleEmulator when a fleet is configured, else MultiDeviceEmulator with
\* its DeviceEmulator
EmulatorKind == IF Len(config) > 0 THEN "simple" ELSE "multi"

\* the generator a (device id, field) pair names
Target(pr) == <<EmulatorKind, pr[1], pr[2]>>

ReadGenerator(target) ==
    IF target[1] = "simple" THEN generators[target[2]][target[3]]
    ELSE de_generators[target[3]]

\* ws.pc values at which the handler is executing, not suspended
WsRunning == {"generate"}

\* the coroutines that are executing: none of them has reached an await
\* that suspends it (generate_data_point and generate_next_value are
\* awaited but never suspend)
Executing ==
    (IF Busy THEN {LoopCoroutine} ELSE {})
      \cup (IF ws.pc \in WsRunning THEN {WsCoroutine} ELSE {})
      \cup DOMAIN inflight

EventLoopRuns_Preemptive(c) == TRUE

\* the event loop may run a step of coroutine c: no other coroutine is
\* executing (one thread, cooperative scheduling)
EventLoopRuns(c) == Executing \subseteq {c}

\* first half of generate_data_point by coroutine c: now = datetime.now(),
\* time_delta = now - self.last_update, and the reads of current_value and
\* drift_offset
BeginGenerate(c, target) ==
    inflight' = (c :> [target |-> target, read |-> ReadGenerator(target), at |-> now])
                  @@ inflight

\* second half: the writes of current_value, drift_offset and last_update,
\* computed from what was read; the outcomes [gen, value, timestamp]
EndGenerate(c) == generate_data_point(inflight[c].read, inflight[c].at, now)

\* the generator state after coroutine c wrote the outcome o
Written(c, o) ==
    IF inflight[c].target[1] = "simple"
    THEN <<[generators EXCEPT ![inflight[c].target[2]][inflight[c].target[3]] = o.gen],
           de_generators>>
    ELSE <<generators, [de_generators EXCEPT ![inflight[c].target[3]] = o.gen]>>

\* the inner for-loop body of _main_emulation_loop up to the reads of
\* generate_data_point: the due check, then the call begins
SchedBegin(l) ==
    /\ loops[l].pc = "fields"
    /\ LoopCoroutine \notin DOMAIN inflight
    /\ EventLoopRuns(LoopCoroutine)
    /\ LET L == loops[l]
           d == AllPairs(config)[L.pos][1]
           data_type_name == AllPairs(config)[L.pos][2]
           data_config == FirstConfig(DeviceDef(config, d), data_type_name)
           last_time == Get(last_generation_times[d], data_type_name, 0)
       IN  IF now - last_time >= generation_interval(data_config)
           THEN /\ BeginGenerate(LoopCoroutine, Target(<<d, data_type_name>>))
                /\ UNCHANGED loops
           ELSE /\ loops' = [loops EXCEPT ![l] = AfterPair(L, "notdue", FALSE)]
                /\ UNCHANGED inflight
    /\ UNCHANGED <<config, generators, last_generation_times, latest_data, running, faults>>
    /\ UNCHANGED <<now, de_generators, samples, reply, ws>>
    /\ UNCHANGED histVars
    /\ UNCHANGED sinkVars
    /\ UNCHANGED taskVars

\* the rest of the body: the generator is written, the sample stored as
\* latest data and the generation time noted
SchedEnd(l) ==
    /\ loops[l].pc = "fields"
    /\ LoopCoroutine \in DOMAIN inflight
    /\ EventLoopRuns(LoopCoroutine)
    /\ LET L == loops[l]
           d == AllPairs(config)[L.pos][1]
           data_type_name == AllPairs(config)[L.pos][2]
       IN  \E o \in EndGenerate(LoopCoroutine) :
             /\ generators' = Written(LoopCoroutine, o)[1]
             /\ latest_data' = [latest_data EXCEPT ![d] =
                    Put(@, data_type_name,
                        DeviceData(d, o.timestamp, data_type_name, o.value))]
             /\ last_generation_times' =
                    [last_generation_times EXCEPT ![d] =
                       Put(@, data_type_name, inflight[LoopCoroutine].at)]
             /\ loops' = [loops EXCEPT ![l] = AfterPair(L, "ok", TRUE)]
    /\ inflight' = Without(inflight, LoopCoroutine)
    /\ UNCHANGED <<config, running, faults>>
    /\ UNCHANGED <<now, de_generators, samples, reply, ws>>
    /\ UNCHANGED histVars
    /\ UNCHANGED sinkVars
    /\ UNCHANGED taskVars

\* DeviceEmulator._data_generation_loop of field `name` wakes from its sleep
\* and calls generate_data_point
GenLoopBegin(name) ==
    /\ EmulatorKind = "multi"
    /\ GenLoopCoroutine(name) \notin DOMAIN inflight
    /\ EventLoopRuns(GenLoopCoroutine(name))
    /\ BeginGenerate(GenLoopCoroutine(name), <<"multi", DeviceEmulatorId, name>>)
    /\ UNCHANGED emuVars
    /\ UNCHANGED <<now, de_generators, samples, reply, ws>>
    /\ UNCHANGED histVars
    /\ UNCHANGED sinkVars
    /\ UNCHANGED taskVars

\* ... writes the generator and goes to sleep for 1 / frequency
GenLoopEnd(name) ==
    /\ GenLoopCoroutine(name) \in DOMAIN inflight
    /\ EventLoopRuns(GenLoopCoroutine(name))
    /\ \E o \in EndGenerate(GenLoopCoroutine(name)) :
         de_generators' = Written(GenLoopCoroutine(name), o)[2]
    /\ inflight' = Without(inflight, GenLoopCoroutine(name))
    /\ UNCHANGED emuVars
    /\ UNCHANGED <<now, samples, reply, ws>>
    /\ UNCHANGED histVars
    /\ UNCHANGED sinkVars
    /\ UNCHANGED taskVars

\* ---------------------------------------------------------------------------
\* RestApiServer._websocket_handler, one connection
\* ---------------------------------------------------------------------------

MaxMessages == 2

WsSleepMs == 1 * MsPerSecond

WsHorizon == Epoch + MaxMessages * WsSleepMs

WsFleet ==
    << Dev("d1", << FieldCfg("temp", DataType_FLOAT, 0, 2, 1000, 2, Some(1), 0, 0) >>),
       Dev("d2", << FieldCfg("door", DataType_BOOLEAN, 0, 2, 1000, 0, None, 0, 0) >>) >>

WsDeviceConfig == FieldCfg("f", DataType_INTEGER, 0, 4, 1000, 2, Some(2), 0, 0)

\* the (device, field) pairs generate_data_for_all_devices walks, in order
WsPairs ==
    IF EmulatorKind = "simple"
    THEN AllPairs(config)
    ELSE << <<DeviceEmulatorId, WsDeviceConfig.name>> >>

\* a client opens GET /ws; the handler awaits ws.prepare
WsConnect ==
    /\ ws = NoWs
    /\ ws' = [NoWs EXCEPT !.pc = "prepare"]
    /\ UNCHANGED emuVars
    /\ UNCHANGED <<now, de_generators, samples, reply, inflight>>
    /\ UNCHANGED histVars
    /\ UNCHANGED sinkVars
    /\ UNCHANGED taskVars

\* `while not ws.closed:` the handler leaves the loop, or starts a snapshot
WhileOpen(w) ==
    IF w.closed
    THEN [w EXCEPT !.pc = "returned"]
    ELSE [w EXCEPT !.pc = "generate", !.pos = 1, !.all_data = <<>>]

WsEnter ==
    /\ ws.pc = "prepare"
    /\ EventLoopRuns(WsCoroutine)
    /\ ws' = WhileOpen(ws)
    /\ UNCHANGED emuVars
    /\ UNCHANGED <<now, de_generators, samples, reply, inflight>>
    /\ UNCHANGED histVars
    /\ UNCHANGED sinkVars
    /\ UNCHANGED taskVars

\* generate_data_for_all_devices reaches the next field: generate_data_point
\* begins
WsBegin ==
    /\ ws.pc = "generate"
    /\ WsCoroutine \notin DOMAIN inflight
    /\ EventLoopRuns(WsCoroutine)
    /\ BeginGenerate(WsCoroutine, Target(WsPairs[ws.pos]))
    /\ UNCHANGED emuVars
    /\ UNCHANGED <<now, de_generators, samples, reply, ws>>
    /\ UNCHANGED histVars
    /\ UNCHANGED sinkVars
    /\ UNCHANGED taskVars

\* `all_data = await self.emulator.generate_data_for_all_devices()` once the
\* last field is generated: the MultiDeviceEmulator method is a coroutine and
\* the await yields its dict; the SimpleEmulator method is a plain function,
\* the await of its dict raises TypeError and `except Exception` ends the
\* handler
AfterSnapshot(w) ==
    IF EmulatorKind = "simple"
    THEN [w EXCEPT !.pc = "returned"]
    ELSE [w EXCEPT !.pc = "send"]

WsEnd ==
    /\ ws.pc = "generate"
    /\ WsCoroutine \in DOMAIN inflight
    /\ EventLoopRuns(WsCoroutine)
    /\ \E o \in EndGenerate(WsCoroutine) :
         /\ generators' = Written(WsCoroutine, o)[1]
         /\ de_generators' = Written(WsCoroutine, o)[2]
         /\ LET pr == WsPairs[ws.pos]
                w == [ws EXCEPT !.all_data =
                        (pr :> DeviceData(pr[1], o.timestamp, pr[2], o.value)) @@ @,
                                !.pos = @ + 1]
            IN  ws' = IF ws.pos = Len(WsPairs) THEN AfterSnapshot(w) ELSE w
    /\ inflight' = Without(inflight, WsCoroutine)
    /\ UNCHANGED <<config, last_generation_times, latest_data, running, loops, faults>>
    /\ UNCHANGED <<now, samples, reply>>
    /\ UNCHANGED histVars
    /\ UNCHANGED sinkVars
    /\ UNCHANGED taskVars

\* `await ws.send_str(...)`, then `await asyncio.sleep(1.0)`; sending on a
\* connection the client closed raises and ends the handler
WsSent ==
    /\ ws.pc = "send"
    /\ EventLoopRuns(WsCoroutine)
    /\ IF ws.closed
       THEN /\ ws' = [ws EXCEPT !.pc = "returned"]
            /\ UNCHANGED reply
       ELSE /\ ws' = [ws EXCEPT !.pc = "sleep", !.sent = @ + 1,
                                !.wake_at = now + WsSleepMs]
            /\ reply' = Reply("ws_send", "", "", ws.all_data, <<>>)
    /\ UNCHANGED emuVars
    /\ UNCHANGED <<now, de_generators, samples, inflight>>
    /\ UNCHANGED histVars
    /\ UNCHANGED sinkVars
    /\ UNCHANGED taskVars

\* the sleep ends and the while condition is tested again
WsWake ==
    /\ ws.pc = "sleep"
    /\ EventLoopRuns(WsCoroutine)
    /\ Max2(now, ws.wake_at) <= WsHorizon
    /\ ws.sent < MaxMessages
    /\ now' = Max2(now, ws.wake_at)
    /\ ws' = WhileOpen(ws)
    /\ UNCHANGED emuVars
    /\ UNCHANGED <<de_generators, samples, reply, inflight>>
    /\ UNCHANGED histVars
    /\ UNCHANGED sinkVars
    /\ UNCHANGED taskVars

\* the client closes the connection
ClientClose ==
    /\ ws.pc \notin {"none", "returned"}
    /\ ~ws.closed
    /\ ws' = [ws EXCEPT !.closed = TRUE]
    /\ UNCHANGED emuVars
    /\ UNCHANGED <<now, de_generators, samples, reply, inflight>>
    /\ UNCHANGED histVars
    /\ UNCHANGED sinkVars
    /\ UNCHANGED taskVars

\* the server over a SimpleEmulator, or over a MultiDeviceEmulator with one
\* DeviceEmulator
InitWs ==
    /\ \/ /\ SimpleEmulatorInit(WsFleet, Epoch)
          /\ de_generators = <<>>
       \/ /\ EmulatorIdle
          /\ \E v \in InitialValues(WsDeviceConfig) : DeviceEmulatorInit(WsDeviceConfig, v)
    /\ now = Epoch
    /\ last_call = NoCall
    /\ produced = <<>>
    /\ samples = <<>>
    /\ reply = NoReply
    /\ NoConnection
    /\ SinkIdle
    /\ NoTasks

WsStart == EmulatorKind = "simple" /\ EventLoopRuns(LoopCoroutine) /\ StartOnce

WsLoopChecks == \E l \in DOMAIN loops : LoopCheck(l)

WsSchedBegins == \E l \in DOMAIN loops : SchedBegin(l)

WsSchedEnds == \E l \in DOMAIN loops : SchedEnd(l)

WsLoopWakes ==
    \E l \in DOMAIN loops : EventLoopRuns(LoopCoroutine) /\ Wake(l, WsHorizon)

WsGenLoopBegins == \E name \in DOMAIN de_generators : GenLoopBegin(name)

WsGenLoopEnds == \E name \in DOMAIN de_generators : GenLoopEnd(name)

WsScheduler ==
    /\ \/ WsStart
       \/ WsLoopChecks
       \/ WsLoopWakes
    /\ UNCHANGED <<samples, reply, ws, inflight>>

NextWs ==
    \/ WsScheduler
    \/ WsSchedBegins
    \/ WsSchedEnds
    \/ WsGenLoopBegins
    \/ WsGenLoopEnds
    \/ WsConnect
    \/ WsEnter
    \/ WsBegin
    \/ WsEnd
    \/ WsSent
    \/ WsWake
    \/ ClientClose

SpecWs == InitWs /\ [][NextWs]_vars

\* a generate call in flight still sees the generator it read: nothing wrote
\* that field's current value, last-update time or drift offset under it
ReadStillCurrent(c) == ReadGenerator(inflight[c].target) = inflight[c].read

\* C15: generation of a field triggered through the API layer is serialized
\* against the scheduler's generation of the same field: no two generate calls
\* on one field are in flight together, and the read-modify-write of a call is
\* never interleaved with a write of that field by another call
C15_GenerationSerialized ==
    /\ \A c1, c2 \in DOMAIN inflight :
         c1 # c2 => inflight[c1].target # inflight[c2].target
    /\ \A c \in DOMAIN inflight : ReadStillCurrent(c)

\* the WebSocket push is generating a field the running scheduler has already
\* generated and will generate again
C15_Witness ==
    /\ WsCoroutine \in DOMAIN inflight
    /\ inflight[WsCoroutine].target[1] = "simple"
    /\ inflight[WsCoroutine].target[3] \in
         DOMAIN latest_data[inflight[WsCoroutine].target[2]]
    /\ \E l \in DOMAIN loops : loops[l].pc = "sleep"
    /\ running

\* the handler of a connection the client keeps open has not returned
HandlerAlive == ws.pc = "returned" => ws.closed

\* a message that was sent holds a sample of every field of every device
FullSnapshot ==
    reply.op = "ws_send" =>
      DOMAIN reply.result = {WsPairs[k] : k \in DOMAIN WsPairs}

\* C20: while a client stays connected on GET /ws the server keeps sending
\* messages that each hold a full data snapshot, until the connection closes,
\* on a SimpleEmulator and on a MultiDeviceEmulator
C20_WsKeepsSending == HandlerAlive /\ FullSnapshot

\* ... as it does on a MultiDeviceEmulator
C20_WsKeepsSendingMulti == EmulatorKind = "multi" => HandlerAlive /\ FullSnapshot

\* ---------------------------------------------------------------------------
\* The DataManager shared by ApiClientThread (producer) and the UI thread
\* (reader): the object carries no lock, the threads interleave between the
\* iterations of their loops
\* ---------------------------------------------------------------------------

\* samples the producer thread records
MaxThreadRecords == 2

\* ApiClientThread._make_data_request_async received a payload and calls
\* data_manager.process_data_batch(data)
ProducerBegin(payload) ==
    /\ pending = <<>>
    /\ inserted + Len(payload) <= MaxThreadRecords
    /\ pending' = payload
    /\ UNCHANGED <<data_streams, inserted, reader, reply>>

\* one iteration of the loops of process_data_batch: the stream is created
\* if missing and the data point added
ProducerStep ==
    /\ pending # <<>>
    /\ data_streams' = RecordInto(data_streams, Head(pending)[1], Head(pending)[2],
                                  Head(pending)[3])
    /\ inserted' = inserted + 1
    /\ pending' = Tail(pending)
    /\ UNCHANGED <<reader, reply>>

\* the UI timer fires refresh_ui_from_data_manager, which calls
\* DataManager.get_latest_data: `for ... in self.data_streams.items()` creates
\* the dict iterator
ReadBegin ==
    /\ reader.pc \in {"idle", "done", "failed"}
    /\ reader' = [NoReader EXCEPT !.pc = "devices",
                                  !.size = Cardinality(DOMAIN data_streams)]
    /\ UNCHANGED <<data_streams, inserted, pending, reply>>

\* next() of the iterator over data_streams: RuntimeError if the dict changed
\* size since the iterator was created, the end of the loop and the return
\* when every device was visited, else the next device and the iterator over
\* its streams
ReadDevice ==
    /\ reader.pc = "devices"
    /\ IF Cardinality(DOMAIN data_streams) # reader.size
       THEN /\ reader' = [reader EXCEPT !.pc = "failed"]
            /\ reply' = Reply("get_latest_data", None, None, <<>>, <<"RuntimeError">>)
       ELSE IF reader.visited = DOMAIN data_streams
       THEN /\ reader' = [reader EXCEPT !.pc = "done"]
            /\ reply' = Reply("get_latest_data", None, None, reader.latest_data, <<>>)
       ELSE /\ \E d \in DOMAIN data_streams \ reader.visited :
                 reader' = [reader EXCEPT
                              !.pc = "streams", !.device = d,
                              !.inner_size = Cardinality(DOMAIN data_streams[d]),
                              !.inner_visited = {},
                              !.latest_data = (d :> <<>>) @@ @]
            /\ UNCHANGED reply
    /\ UNCHANGED <<data_streams, inserted, pending>>

\* next() of the iterator over the device's streams, and the loop body
ReadStream ==
    /\ reader.pc = "streams"
    /\ LET device_streams == data_streams[reader.device]
       IN  IF Cardinality(DOMAIN device_streams) # reader.inner_size
           THEN /\ reader' = [reader EXCEPT !.pc = "failed"]
                /\ reply' = Reply("get_latest_data", None, None, <<>>, <<"RuntimeError">>)
           ELSE /\ IF reader.inner_visited = DOMAIN device_streams
                   THEN reader' = [reader EXCEPT !.pc = "devices",
                                                 !.visited = @ \cup {reader.device}]
                   ELSE \E f \in DOMAIN device_streams \ reader.inner_visited :
                          LET latest_point == get_latest_data_point(device_streams[f])
                          IN  reader' = [reader EXCEPT
                                !.inner_visited = @ \cup {f},
                                !.latest_data[reader.device] =
                                   IF IsNone(latest_point) THEN @
                                   ELSE (f :> TheValue(latest_point)) @@ @]
                /\ UNCHANGED reply
    /\ UNCHANGED <<data_streams, inserted, pending>>

ProducerBegins == \E payload \in Payloads : ProducerBegin(payload)

NextThreads ==
    /\ \/ ProducerBegins
       \/ ProducerStep
       \/ ReadBegin
       \/ ReadDevice
       \/ ReadStream
    /\ UNCHANGED <<now, de_generators, samples, ws, inflight>>
    /\ UNCHANGED emuVars
    /\ UNCHANGED histVars
    /\ UNCHANGED taskVars

SpecThreads == InitSink /\ [][NextThreads]_vars

\* C16: a read of the data sink made on another thread while the producer
\* records a sample never fails because the series or the series map changed
\* during the read
C16_ReadsSafe == reader.pc # "failed"

\* ---------------------------------------------------------------------------
\* RestApiServer: GET /data/{device_id}
\* ---------------------------------------------------------------------------

RestCoroutine == <<"rest", "">>

\* the device ids the emulator behind the server is configured with
ConfiguredIds ==
    IF EmulatorKind = "simple" THEN DeviceIds(config) ELSE {DeviceEmulatorId}

\* RestApiServer._get_device_data: the response status and body.
\* MultiDeviceEmulator has no get_latest_data: the call raises AttributeError,
\* which `except Exception` turns into a 500
get_device_data_response(device_id) ==
    IF EmulatorKind = "multi"
    THEN [status |-> 500, body |-> <<>>]
    ELSE LET device_data == get_latest_data(Some(device_id), None).value
         IN  IF device_data = <<>>
             THEN [status |-> 404, body |-> <<>>]
             ELSE [status |-> 200, body |-> device_data]

_get_device_data(device_id) ==
    /\ EventLoopRuns(RestCoroutine)
    /\ reply' = Reply("get_device_data", device_id, "",
                      get_device_data_response(device_id), <<>>)
    /\ UNCHANGED emuVars
    /\ UNCHANGED <<now, de_generators, samples, ws, inflight>>
    /\ UNCHANGED histVars
    /\ UNCHANGED sinkVars
    /\ UNCHANGED taskVars

\* clients ask for the configured devices and for one that is not configured
GetDeviceDatas == \E device_id \in ConfiguredIds \cup {UnknownName} : _get_device_data(device_id)

NextRest ==
    \/ WsScheduler
    \/ WsSchedBegins
    \/ WsSchedEnds
    \/ GetDeviceDatas

SpecRest == InitWs /\ [][NextRest]_vars

\* a GET /data/{id} for an id that is not configured was just answered
UnknownDeviceAsked ==
    /\ reply' # reply
    /\ reply'.op = "get_device_data"
    /\ reply'.device \notin ConfiguredIds

\* C19: GET /data/{id} for a device id that is not configured is answered
\* with 404, never with a server error, and changes no emulator state
C19_UnknownDevice404 ==
    [][UnknownDeviceAsked =>
         /\ reply'.result.status = 404
         /\ UNCHANGED emuVars
         /\ UNCHANGED de_generators]_vars

\* ... as it is when the server stands on a SimpleEmulator
C19_UnknownDevice404Simple ==
    [][UnknownDeviceAsked /\ EmulatorKind = "simple" =>
         /\ reply'.result.status = 404
         /\ UNCHANGED emuVars
         /\ UNCHANGED de_generators]_vars

\* ---------------------------------------------------------------------------
\* Configuration loading
\* ---------------------------------------------------------------------------

MaxFleetLen == 2

\* device definitions a fleet file may hold
FleetDefinitions ==
    { Dev("d1", << FieldCfg("temp", DataType_FLOAT, 0, 2, 1000, 2, None, 0, 0) >>),
      Dev("d1", << FieldCfg("hum", DataType_INTEGER, 0, 4, 1000, 2, Some(2), 0, 0) >>),
      Dev("d2", << FieldCfg("temp", DataType_FLOAT, 0, 2, 1000, 2, Some(1), 0, 0) >>),
      Dev("d3", << FieldCfg("door", DataType_BOOLEAN, 0, 2, 1000, 2, None, 0, 0),
                   FieldCfg("temp", DataType_INTEGER, 0, 4, 1000, 2, None, 0, 0) >>) }

\* the device lists of the fleet files that are loaded
FleetFiles ==
    UNION {[1 .. n -> FleetDefinitions] : n \in 0 .. MaxFleetLen}

\* MultiDeviceConfig.validate_devices / DeviceConfig.validate_devices
validate_devices_NonEmpty(v) == Len(v) > 0

validate_devices(v) ==
    /\ Len(v) > 0
    /\ Len(v) = Cardinality({v[i].device_id : i \in DOMAIN v})

\* MultiDeviceConfig(**config_data): every DeviceDefinition and its
\* DataGenerationConfigs are validated, then the devices list
MultiDeviceConfigOk(devices) ==
    /\ \A i \in DOMAIN devices : \A k \in DOMAIN devices[i].data_configs :
         DataGenerationConfigOk(devices[i].data_configs[k])
    /\ validate_devices(devices)

\* the definitions SimpleEmulator._initialize_devices leaves in self.devices:
\* `self.devices[device_def.device_id] = device` keeps the last one of an id
DevicesOf(devices) ==
    SelectSeq(devices,
              LAMBDA def : def = devices[CHOOSE i \in DOMAIN devices :
                                   /\ devices[i].device_id = def.device_id
                                   /\ \A j \in DOMAIN devices :
                                        devices[j].device_id = def.device_id => j <= i])

\* SimpleEmulator(config)
SimpleEmulatorConstructed(conf, t) ==
    /\ config' = conf
    /\ \E m \in InitialGenerators(conf, t, Len(AllPairs(conf))) :
         generators' = [d \in DeviceIds(conf) |->
                          [n \in {AllPairs(conf)[k][2] :
                                    k \in {j \in DOMAIN AllPairs(conf) : AllPairs(conf)[j][1] = d}}
                             |-> m[PairIndex(conf, d, n)]]]
    /\ last_generation_times' = [d \in DeviceIds(conf) |-> <<>>]
    /\ latest_data' = [d \in DeviceIds(conf) |-> <<>>]
    /\ UNCHANGED <<running, loops, faults>>

\* a runner loads the fleet file and, if that succeeds, constructs the
\* emulator from the configuration
LoadFleet(devices) ==
    /\ config = <<>>
    /\ IF MultiDeviceConfigOk(devices)
       THEN /\ SimpleEmulatorConstructed(DevicesOf(devices), now)
            /\ reply' = Reply("load", None, None, devices, <<>>)
       ELSE /\ reply' = Reply("load", None, None, devices, <<"ValidationError">>)
            /\ UNCHANGED emuVars
    /\ UNCHANGED <<now, de_generators, samples, ws, inflight>>
    /\ UNCHANGED histVars
    /\ UNCHANGED sinkVars
    /\ UNCHANGED taskVars

LoadFleets == \E devices \in FleetFiles : LoadFleet(devices)

LoadedGenerate == config # <<>> /\ generate_data_for_all_devices

NextLoad == LoadFleets \/ LoadedGenerate

SpecLoad == InitSink /\ [][NextLoad]_vars

\* two definitions of a fleet file carry the same device id
HasDuplicateIds(devices) ==
    \E i, j \in DOMAIN devices : i # j /\ devices[i].device_id = devices[j].device_id

\* C18: loading a fleet configuration in which two devices have the same
\* device id fails with a configuration error, before any Device and any
\* field generator is constructed
C18_DuplicateIdsRejected ==
    [][(reply'.op = "load" /\ HasDuplicateIds(reply'.result))
         => /\ reply'.errors # <<>>
            /\ generators' = <<>>
            /\ config' = <<>>]_vars

\* a fleet file with a duplicate id was loaded and rejected, and no device
\* or generator exists
C18_Witness ==
    /\ reply.op = "load"
    /\ HasDuplicateIds(reply.result)
    /\ reply.errors = <<"ValidationError">>
    /\ generators = <<>>

\* C17: a field specification with min > max is rejected when the
\* configuration is loaded, so no field generator is ever constructed with
\* min_value > max_value
C17_NoGeneratorWithMinAboveMax ==
    /\ \A name \in DOMAIN de_generators :
         de_generators[name].config.min_value <= de_generators[name].config.max_value
    /\ \A d \in DOMAIN generators : \A name \in DOMAIN generators[d] :
         generators[d][name].config.min_value <= generators[d][name].config.max_value

----------------------------------------------------------------------------
(* Properties of a field's generator state *)

\* the field of the generator model is a Boolean one
BooleanField(name) == de_generators[name].config.data_type = DataType_BOOLEAN

\* a generate call on the field returned in this step
Generated(name) ==
    /\ last_call' # last_call
    /\ last_call'.status = "ok"
    /\ last_call'.name = name

\* C22: a Boolean field with change_step = 0 keeps its value over any
\* number of generate calls, whatever time passes between them
C22_BooleanStepZeroConstant ==
    [][\A name \in DOMAIN de_generators :
         (BooleanField(name) /\ de_generators[name].config.change_step = 0) =>
           /\ de_generators'[name].current_value = de_generators[name].current_value
           /\ Generated(name) =>
                TheValue(last_call'.value) = de_generators[name].current_value]_vars

\* the Boolean field with change_step = 0 was generated after two seconds
\* and again after a further second
C22_Witness ==
    /\ last_call.status = "ok"
    /\ TheValue(last_call.cfg).data_type = DataType_BOOLEAN
    /\ TheValue(last_call.cfg).change_step = 0
    /\ last_call.dt >= MsPerSecond
    /\ de_generators[last_call.name].last_update >= Epoch + 3 * MsPerSecond

\* C23: a generate call on a Boolean field at which change_step x elapsed
\* time is at least 1 returns the negation of the field's previous value
C23_BooleanCertainFlip ==
    [][\A name \in DOMAIN de_generators :
         (/\ BooleanField(name)
          /\ Generated(name)
          /\ de_generators[name].config.change_step * last_call'.dt
               >= ValueScale * MsPerSecond) =>
           /\ TheValue(last_call'.value) = ~de_generators[name].current_value
           /\ de_generators'[name].current_value = ~de_generators[name].current_value]_vars

\* the Boolean field with change_step = 1 per second was generated two
\* seconds after its last update
C23_Witness ==
    /\ last_call.status = "ok"
    /\ TheValue(last_call.cfg).data_type = DataType_BOOLEAN
    /\ TheValue(last_call.cfg).change_step = ValueScale
    /\ last_call.dt >= 2 * MsPerSecond

\* C27: after a generate call on a numeric field the stored current value
\* equals the value of the sample the call returned
C27_CurrentValueIsSample ==
    NumericReturned =>
      de_generators[last_call.name].current_value = TheValue(last_call.value)

\* the generator states a generate call at the current time may leave
StatesAfter(name, now2) ==
    {o.gen : o \in generate_data_point(de_generators[name], now, now2)}

\* the current values the random step of that call may leave
StepsOf(name, now2) ==
    {nv.current_value :
       nv \in _generate_next_value(de_generators[name], now2 - de_generators[name].last_update)}

\* C29: noise is not retained in state: the state a generate call on a
\* numeric field leaves (current value, drift offset, last-update time) is
\* determined by the random step and the elapsed time alone, so runs that
\* differ only in their noise draws stay in the same state after every call
C29_NoiseNotRetained ==
    \A name \in DOMAIN de_generators :
      IsNumeric(de_generators[name].config) =>
        \A now2 \in ClockReads(now, GenHorizon) :
          /\ Cardinality(StatesAfter(name, now2)) = Cardinality(StepsOf(name, now2))
          /\ \A o1, o2 \in generate_data_point(de_generators[name], now, now2) :
               o1.gen.current_value = o2.gen.current_value => o1.gen = o2.gen

\* a field with noise was generated repeatedly, and two noise draws of its
\* next call return different values from the same state
C29_Witness ==
    /\ last_call.status = "ok"
    /\ TheValue(last_call.cfg).noise_level > 0
    /\ now >= Epoch + 2 * MsPerSecond
    /\ \E o1, o2 \in generate_data_point(de_generators[last_call.name], now, now) :
         o1.gen = o2.gen /\ o1.value # o2.value

----------------------------------------------------------------------------
(* Timing of the emulation loop: one loop, no generation errors, fields whose
   values never move; the clock may jump while the loop works through a tick
   or sleeps (a stall, or a tick that takes long) *)

\* milliseconds of wall-clock time the timing model covers
MaxTickMs == 500

TickHorizon == Epoch + MaxTickMs

\* the clock jumps by one of these amounts
StallSteps == {100, 250}

\* fleets: one 8 Hz field; a 20 Hz and a 5 Hz field on two devices; a 10 Hz
\* field beside one that declares no frequency
TickFleets ==
    { << Dev("d1", << FieldCfg("temp", DataType_FLOAT, 0, 8, 8000, 0, Some(2), 0, 0) >>) >>,
      << Dev("d1", << FieldCfg("fast", DataType_FLOAT, 0, 8, 20000, 0, Some(2), 0, 0) >>),
         Dev("d2", << FieldCfg("level", DataType_INTEGER, 0, 4, 5000, 0, Some(2), 0, 0) >>) >>,
      << Dev("d1", << FieldCfg("temp", DataType_FLOAT, 0, 8, 10000, 0, Some(2), 0, 0),
                      FieldCfg("mode", DataType_INTEGER, 0, 4, 0, 0, Some(2), 0, 0) >>) >> }

InitTick ==
    /\ \E fleet \in TickFleets : SimpleEmulatorInit(fleet, Epoch)
    /\ now = Epoch
    /\ de_generators = <<>>
    /\ last_call = NoCall
    /\ produced = <<>>
    /\ samples = [k \in {AllPairs(config)[i] : i \in DOMAIN AllPairs(config)} |-> <<>>]
    /\ reply = NoReply
    /\ NoConnection
    /\ SinkIdle
    /\ NoTasks

TickLoopChecks == \E l \in DOMAIN loops : LoopCheck(l)

TickFieldSteps == (\E l \in DOMAIN loops : FieldStep(l)) /\ faults' = faults

TickWakes == \E l \in DOMAIN loops : Wake(l, TickHorizon)

\* the clock jumps while the loop is inside a tick or asleep
Stall(d) ==
    /\ \E l \in DOMAIN loops : loops[l].pc \in {"fields", "sleep"}
    /\ now + d <= TickHorizon
    /\ now' = now + d
    /\ UNCHANGED emuVars
    /\ UNCHANGED de_generators
    /\ UNCHANGED histVars
    /\ UNCHANGED sinkVars
    /\ UNCHANGED taskVars

Stalls == \E d \in StallSteps : Stall(d)

\* history: the time.time() of every generation the loop recorded, per field
NoteSamples ==
    samples' = [k \in DOMAIN samples |->
                  IF Get(last_generation_times'[k[1]], k[2], 0)
                       # Get(last_generation_times[k[1]], k[2], 0)
                  THEN Append(samples[k], Get(last_generation_times'[k[1]], k[2], 0))
                  ELSE samples[k]]

NextTick ==
    /\ \/ StartOnce
       \/ TickLoopChecks
       \/ TickFieldSteps
       \/ TickWakes
       \/ Stalls
    /\ NoteSamples
    /\ UNCHANGED <<reply, ws, inflight>>

SpecTick == InitTick /\ [][NextTick]_vars

\* milliseconds of wall-clock time followed when no tick overruns
MaxSteadyMs == 2000

SteadyHorizon == Epoch + MaxSteadyMs

SteadyWakes == \E l \in DOMAIN loops : Wake(l, SteadyHorizon)

\* the same loop when no tick overruns: a tick takes no time and every
\* sleep ends on time
NextSteady ==
    /\ \/ StartOnce
       \/ TickLoopChecks
       \/ TickFieldSteps
       \/ SteadyWakes
    /\ NoteSamples
    /\ UNCHANGED <<reply, ws, inflight>>

SpecSteady == InitTick /\ [][NextSteady]_vars

\* 1 / frequency of a field in milliseconds, 1 s when frequency <= 0
RequiredInterval(d, n) ==
    LET frequency == FirstConfig(DeviceDef(config, d), n).frequency
    IN  IF frequency > 0 THEN (MsPerSecond * 1000) \div frequency ELSE MsPerSecond

\* the loop finished a tick in this step
TickEnded(l) ==
    /\ VisitedPair(l)
    /\ loops[l].pos = Len(AllPairs(config))

\* C21: missed generations are skipped, never caught up: a tick generates a
\* field at most once, two generations of a field are never closer than the
\* field's interval however long the loop was stalled before, and a tick
\* that took at least the tick interval is followed by the next tick
\* without a sleep
C21_NoCatchUp ==
    /\ [](\A l \in DOMAIN loops : Len(loops[l].outcome) <= Len(AllPairs(config)))
    /\ [](\A k \in DOMAIN samples : \A i \in DOMAIN samples[k] :
            i > 1 => samples[k][i] - samples[k][i - 1] >= RequiredInterval(k[1], k[2]))
    /\ [][\A l \in DOMAIN loops :
            /\ (TickEnded(l) /\ now - loops[l].loop_start >= loops[l].min_sleep_time)
                 => loops'[l].pc = "check"
            /\ (loops[l].pc = "check" /\ loops'[l] # loops[l])
                 => /\ loops'[l].pc = "fields"
                    /\ loops'[l].loop_start = now
                    /\ now' = now]_vars

\* the clock jumped five intervals of the 20 Hz field inside a tick; the
\* tick ended without a sleep, the next tick began at once and generated the
\* field once
C21_Witness ==
    \E l \in DOMAIN loops :
        /\ loops[l].pc = "fields"
        /\ loops[l].pos = 2
        /\ loops[l].loop_start = now
        /\ <<"d1", "fast">> \in DOMAIN samples
        /\ samples[<<"d1", "fast">>] = <<Epoch, Epoch + 250>>
        /\ samples[<<"d2", "level">>] = <<Epoch + 250>>

\* the 100 ms default of the loop
TickFloor == DefaultSleepMs

\* the 1 / frequency of every field of the fleet that has a positive frequency
PositiveIntervals(conf) ==
    LET frequency(i) ==
            FirstConfig(DeviceDef(conf, AllPairs(conf)[i][1]), AllPairs(conf)[i][2]).frequency
    IN  {IntervalOf(frequency(i)) : i \in {j \in DOMAIN AllPairs(conf) : frequency(j) > 0}}

\* C24: the tick interval of a running loop is the least 1 / frequency of
\* the configured fields, and is the 100 ms default when no field has a
\* positive frequency or when that least interval is below 100 ms: so it is
\* never below 100 ms
C24_TickInterval ==
    \A l \in DOMAIN loops :
        /\ loops[l].min_sleep_time >= TickFloor
        /\ loops[l].min_sleep_time =
             IF PositiveIntervals(config) = {} THEN TickFloor
             ELSE Max2(TickFloor, SetMin(PositiveIntervals(config)))

\* C25: a pair the loop visits is generated exactly when the time since its
\* own last recorded generation is at least 1 / frequency (1 s when
\* frequency <= 0); a generated pair has its Sample stored as latest data
\* and its last generation time set to the time of the check; a pair that is
\* not due keeps its generator state, latest data and last generation time
C25_GeneratedIffDue ==
    [][\A l \in DOMAIN loops :
         VisitedPair(l) =>
           LET d == AllPairs(config)[loops[l].pos][1]
               n == AllPairs(config)[loops[l].pos][2]
               elapsed == now - Get(last_generation_times[d], n, 0)
           IN  IF elapsed >= RequiredInterval(d, n)
               THEN /\ RecordedNow(l)
                    /\ Get(last_generation_times[d], n, 0) # now
               ELSE /\ generators'[d][n] = generators[d][n]
                    /\ latest_data'[d] = latest_data[d]
                    /\ last_generation_times'[d] = last_generation_times[d]]_vars

\* a tick 50 ms after the first generated the 20 Hz field again and left the
\* 5 Hz field, which was not due, alone
C25_Witness ==
    \E l \in DOMAIN loops :
        /\ loops[l].pc = "sleep"
        /\ loops[l].loop_start = now
        /\ <<"d1", "fast">> \in DOMAIN samples
        /\ samples[<<"d1", "fast">>] = <<Epoch, now>>
        /\ samples[<<"d2", "level">>] = <<Epoch>>
        /\ now - Epoch < RequiredInterval("d2", "level")
        /\ latest_data["d1"]["fast"].timestamp = now
        /\ latest_data["d2"]["level"].timestamp = Epoch

\* C26: when no tick overruns, the n-th generation of a field after its
\* first is no later than n intervals of the field plus one tick interval
\* after the first
C26_ErrorDoesNotCompound ==
    \A l \in DOMAIN loops : \A k \in DOMAIN samples : \A i \in DOMAIN samples[k] :
        i > 1 => samples[k][i] <= samples[k][1]
                                    + (i - 1) * RequiredInterval(k[1], k[2])
                                    + loops[l].min_sleep_time

----------------------------------------------------------------------------
(* The drift accumulator under the emulation loop, with stop and restart *)

\* ticks of the loop the drift model follows
MaxDriftTicks == 5

DriftHorizon == Epoch + MaxDriftTicks * DefaultSleepMs

\* a Float field that drifts up by 0.5 each tick and reaches its maximum,
\* and a Boolean and a String field whose configuration names a drift rate
DriftFleet ==
    << Dev("d1", << FieldCfg("temp", DataType_FLOAT, 0, 4, 10000, 0, Some(2), 0, 10),
                    FieldCfg("door", DataType_BOOLEAN, 0, 2, 10000, 0, None, 0, 10),
                    FieldCfg("mode", DataType_STRING, 0, 2, 10000, 0, None, 0, 10) >>) >>

InitDrift ==
    /\ SimpleEmulatorInit(DriftFleet, Epoch)
    /\ now = Epoch
    /\ de_generators = <<>>
    /\ last_call = NoCall
    /\ produced = <<>>
    /\ samples = <<>>
    /\ reply = NoReply
    /\ NoConnection
    /\ SinkIdle
    /\ NoTasks

DriftFieldSteps == (\E l \in DOMAIN loops : FieldStep(l)) /\ faults' = faults

DriftWakes == \E l \in DOMAIN loops : Wake(l, DriftHorizon)

NextDrift ==
    /\ \/ Start
       \/ Stop
       \/ LoopChecks
       \/ DriftFieldSteps
       \/ DriftWakes
    /\ UNCHANGED <<samples, reply, ws, inflight>>

SpecDrift == InitDrift /\ [][NextDrift]_vars

\* C28: every step changes the drift accumulator of a numeric field by
\* drift_rate times the time between its old and its new last update (by
\* nothing when the field was not generated), whether or not the value is
\* clamped and across stop and start; the accumulator of a Boolean or String
\* field is always 0
C28_DriftAccumulates ==
    /\ [](\A d \in DOMAIN generators : \A n \in DOMAIN generators[d] :
            ~IsNumeric(generators[d][n].config) => generators[d][n].drift_offset = 0)
    /\ [][\A d \in DOMAIN generators : \A n \in DOMAIN generators[d] :
            IsNumeric(generators[d][n].config) =>
               generators'[d][n].drift_offset =
                  generators[d][n].drift_offset
                    + (generators[d][n].config.drift_rate
                         * (generators'[d][n].last_update - generators[d][n].last_update))
                      \div MsPerSecond]_vars

\* after a stop and a second start the Float field has accumulated three
\* ticks of drift, its latest value is held at the maximum below
\* current value + drift, and the Boolean and String fields were generated
C28_Witness ==
    /\ Len(loops) = 2
    /\ generators["d1"]["temp"].drift_offset = 3
    /\ "temp" \in DOMAIN latest_data["d1"]
    /\ latest_data["d1"]["temp"].value = 4
    /\ generators["d1"]["temp"].current_value + generators["d1"]["temp"].drift_offset > 4
    /\ generators["d1"]["door"].last_update > Epoch
    /\ generators["d1"]["mode"].last_update > Epoch

----------------------------------------------------------------------------
(* Frame of one generation *)

\* the latest sample and the last generation time recorded for a field
RecordOf(data, times, d, n) ==
    <<IF n \in DOMAIN data[d] THEN <<data[d][n]>> ELSE <<>>,
      IF n \in DOMAIN times[d] THEN <<times[d][n]>> ELSE <<>>>>

\* C30: when the loop generates field F of device D, the generator state
\* (current value, last update, drift accumulator), the latest sample and
\* the last generation time of every other field of D and of every field of
\* every other device stay as they were
C30_OnlyOwnState ==
    [][\A l \in DOMAIN loops :
         VisitedPair(l) =>
           \A d \in DOMAIN generators : \A n \in DOMAIN generators[d] :
              <<d, n>> # AllPairs(config)[loops[l].pos] =>
                 /\ generators'[d][n] = generators[d][n]
                 /\ RecordOf(latest_data', last_generation_times', d, n)
                      = RecordOf(latest_data, last_generation_times, d, n)]_vars

\* the second tick generated "temp" of device d1 while the field of the same
\* name of the other device, and "door" of d1, keep what the first tick
\* recorded
C30_Witness ==
    \E l \in DOMAIN loops :
        /\ loops[l].pc = "fields"
        /\ loops[l].pos = 2
        /\ now > Epoch
        /\ RecordOf(latest_data, last_generation_times, "d1", "temp")[2] = <<now>>
        /\ generators["d1"]["temp"].last_update = now
        /\ RecordOf(latest_data, last_generation_times, "", "temp")[2] = <<Epoch>>
        /\ RecordOf(latest_data, last_generation_times, "d1", "door")[2] = <<Epoch>>
        /\ generators[""]["temp"].last_update = Epoch
        /\ latest_data[""]["temp"].timestamp = Epoch

----------------------------------------------------------------------------
(* Rounding and saturation of numeric fields *)

\* C36: a generate call on an Integer field whose stored current value is a
\* positive whole number, made when change_step x elapsed time is below 1,
\* leaves a stored current value that is not above the one before
C36_SmallStepsNeverIncrease ==
    [][\A name \in DOMAIN de_generators :
         (/\ de_generators[name].config.data_type = DataType_INTEGER
          /\ Generated(name)
          /\ de_generators[name].current_value > 0
          /\ de_generators[name].current_value % ValueScale = 0
          /\ de_generators[name].config.change_step * last_call'.dt
               < ValueScale * MsPerSecond) =>
           de_generators'[name].current_value <= de_generators[name].current_value]_vars

\* the Integer field with change_step 1.5 per second, whose stored values
\* are always whole, was generated half a second after its last update and
\* holds a positive value
C36_Witness ==
    /\ last_call.status = "ok"
    /\ TheValue(last_call.cfg).data_type = DataType_INTEGER
    /\ TheValue(last_call.cfg).min_value = 0
    /\ last_call.dt = SkewStep
    /\ TheValue(last_call.cfg).change_step * last_call.dt < ValueScale * MsPerSecond
    /\ TheValue(last_call.cfg).change_step * last_call.dt >= MsPerSecond
    /\ de_generators[last_call.name].current_value >= ValueScale

\* Float fields without noise that drift: up by 0.5 per second and down by
\* 1 per second over a range of 1, and up with min_value above max_value
SaturatingConfigs ==
    { FieldCfg("f", DataType_FLOAT, 0, 2, 1000, 2, None, 0, 1),
      FieldCfg("f", DataType_FLOAT, 0, 2, 1000, 2, None, 0, -2),
      FieldCfg("f", DataType_FLOAT, 2, 0, 1000, 2, None, 0, 1) }

InitSaturating ==
    /\ \E cfg \in SaturatingConfigs : \E v \in InitialValues(cfg) : DeviceEmulatorInit(cfg, v)
    /\ now = Epoch
    /\ last_call = NoCall
    /\ produced = [k \in {<<DeviceEmulatorId, n>> : n \in DOMAIN de_generators} |-> None]
    /\ samples = <<>>
    /\ reply = NoReply
    /\ NoConnection
    /\ EmulatorIdle
    /\ SinkIdle
    /\ NoTasks

SpecSaturating == InitSaturating /\ [][NextGen]_vars

\* C37: once the drift accumulator of a Float field without noise has
\* reached max - min, a generate call returns exactly max when drift_rate is
\* positive; once it has reached -(max - min), exactly min when drift_rate
\* is negative
C37_PinnedAtBound ==
    [][\A name \in DOMAIN de_generators :
         LET g == de_generators[name]
             cfg == g.config
         IN  (/\ cfg.data_type = DataType_FLOAT
              /\ cfg.noise_level = 0
              /\ Generated(name)) =>
               /\ (cfg.drift_rate > 0 /\ g.drift_offset >= cfg.max_value - cfg.min_value)
                    => TheValue(last_call'.value) = cfg.max_value
               /\ (cfg.drift_rate < 0 /\ g.drift_offset <= -(cfg.max_value - cfg.min_value))
                    => TheValue(last_call'.value) = cfg.min_value]_vars

\* the same for the fields whose min_value is not above max_value
PinnedWhenOrdered ==
    [][\A name \in DOMAIN de_generators :
         LET g == de_generators[name]
             cfg == g.config
         IN  (/\ cfg.data_type = DataType_FLOAT
              /\ cfg.noise_level = 0
              /\ cfg.min_value <= cfg.max_value
              /\ Generated(name)) =>
               /\ (cfg.drift_rate > 0 /\ g.drift_offset >= cfg.max_value - cfg.min_value)
                    => TheValue(last_call'.value) = cfg.max_value
               /\ (cfg.drift_rate < 0 /\ g.drift_offset <= -(cfg.max_value - cfg.min_value))
                    => TheValue(last_call'.value) = cfg.min_value]_vars

----------------------------------------------------------------------------
(* On-demand generation next to the running emulation loop *)

\* generate_data_for_device called while no coroutine is executing
LoopSideGenerate ==
    /\ ~Busy
    /\ \E d \in {"d1", UnknownName} : generate_data_for_device(d, "temp")
    /\ UNCHANGED <<samples, reply, ws, inflight>>

NextOnDemandLoop ==
    \/ ApiLoop
    \/ generate_data_for_all_devices
    \/ LoopSideGenerate

SpecOnDemandLoop == InitApi /\ [][NextOnDemandLoop]_vars

\* this step is an on-demand generation call
OnDemandCall ==
    \/ last_call' # last_call /\ last_call'.op = "generate_data_for_device"
    \/ reply' # reply /\ reply'.op = "generate_data_for_all_devices"
    \/ generators' # generators /\ loops' = loops

\* C35: an on-demand generation call leaves the recorded latest data, the
\* per-field last generation times and the loop as they were; each field it
\* generated has the time of the call as its last update
C35_OnDemandLeavesScheduleAlone ==
    [][OnDemandCall =>
         /\ latest_data' = latest_data
         /\ last_generation_times' = last_generation_times
         /\ loops' = loops
         /\ (last_call' # last_call /\ last_call'.status = "ok")
              => generators'[last_call'.device][last_call'.name].last_update = now
         /\ (reply' # reply /\ reply'.op = "generate_data_for_all_devices")
              => \A i \in DOMAIN AllPairs(config) :
                   Logged(reply'.errors, AllPairs(config)[i])
                     \/ generators'[AllPairs(config)[i][1]][AllPairs(config)[i][2]].last_update
                          = now]_vars

\* both kinds of call were made after the loop's first tick: the latest data
\* and last generation time of d1.temp are still those of the tick, its
\* generator was updated later
C35_Witness ==
    /\ last_call.op = "generate_data_for_device"
    /\ last_call.status = "ok"
    /\ last_call.device = "d1"
    /\ last_call.name = "temp"
    /\ reply.op = "generate_data_for_all_devices"
    /\ "temp" \in DOMAIN latest_data["d1"]
    /\ latest_data["d1"]["temp"].timestamp = Epoch
    /\ Get(last_generation_times["d1"], "temp", 0) = Epoch
    /\ generators["d1"]["temp"].last_update > Epoch

----------------------------------------------------------------------------
(* A generation that fails inside the emulation loop *)

\* the field (d, n) is due at time t given the recorded generation times
DueAt(times, d, n, t) == t - Get(times[d], n, 0) >= RequiredInterval(d, n)

\* C34: a failed generation of a due field leaves the field's latest sample
\* and last generation time as they were; a field that is due stays due
\* until a generation of it is recorded; and every visit of a due field
\* attempts the generation: so the field is attempted again on each tick
\* that follows, until a generation succeeds
C34_FailedFieldRetried ==
    /\ [][\A l \in DOMAIN loops :
            (VisitedPair(l) /\ faults' # faults) =>
               LET d == AllPairs(config)[loops[l].pos][1]
                   n == AllPairs(config)[loops[l].pos][2]
               IN  /\ DueAt(last_generation_times, d, n, now)
                   /\ RecordOf(latest_data', last_generation_times', d, n)
                        = RecordOf(latest_data, last_generation_times, d, n)
                   /\ DueAt(last_generation_times', d, n, now')]_vars
    /\ [][\A d \in DOMAIN generators : \A n \in DOMAIN generators[d] :
            (/\ DueAt(last_generation_times, d, n, now)
             /\ RecordOf(latest_data', last_generation_times', d, n)[2]
                  = RecordOf(latest_data, last_generation_times, d, n)[2])
              => DueAt(last_generation_times', d, n, now')]_vars
    /\ [][\A l \in DOMAIN loops :
            (/\ VisitedPair(l)
             /\ DueAt(last_generation_times, AllPairs(config)[loops[l].pos][1],
                      AllPairs(config)[loops[l].pos][2], now))
              => loops'[l].outcome[loops[l].pos] \in {"ok", "error"}]_vars

\* the 5 Hz field failed in the first tick and was generated in the tick
\* 100 ms later, when it would not have been due had it succeeded
C34_Witness ==
    /\ faults = 1
    /\ Len(loops) = 1
    /\ "level" \in DOMAIN latest_data["d1"]
    /\ latest_data["d1"]["level"].timestamp = Epoch + DefaultSleepMs
    /\ Get(last_generation_times["d1"], "level", 0) = Epoch + DefaultSleepMs
    /\ Get(last_generation_times["d1"], "temp", 0) = Epoch + DefaultSleepMs
    /\ generators["d1"]["level"].last_update = Epoch + DefaultSleepMs

----------------------------------------------------------------------------
(* GET /data/{id} for a configured device *)

\* a GET /data/{id} for a configured device id was just answered
ConfiguredDeviceAsked ==
    /\ reply' # reply
    /\ reply'.op = "get_device_data"
    /\ reply'.device \in ConfiguredIds

\* the loop has recorded a sample of some field of the device
HasRecordedSample(device_id) ==
    /\ device_id \in DOMAIN latest_data
    /\ DOMAIN latest_data[device_id] # {}

\* C38: GET /data/{id} for a configured device is answered with 404 while
\* no sample of the device is recorded, and with the device's latest
\* sample per field once one is
C38_NoSampleYet404 ==
    [][ConfiguredDeviceAsked =>
         IF HasRecordedSample(reply'.device)
         THEN /\ reply'.result.status = 200
              /\ reply'.result.body = latest_data[reply'.device]
         ELSE reply'.result.status = 404]_vars

\* ... as it is when the server stands on a SimpleEmulator
NoSampleYet404Simple ==
    [][ConfiguredDeviceAsked /\ EmulatorKind = "simple" =>
         IF HasRecordedSample(reply'.device)
         THEN /\ reply'.result.status = 200
              /\ reply'.result.body = latest_data[reply'.device]
         ELSE reply'.result.status = 404]_vars

----------------------------------------------------------------------------
(* Fields and generators of a device *)

\* a device with two fields of different names, and a device whose two
\* fields are both named "temp": a 10 Hz Float and a 5 Hz Integer
FieldFleets ==
    { << Dev("d1", << FieldCfg("temp", DataType_FLOAT, 0, 8, 10000, 0, Some(2), 0, 0),
                      FieldCfg("level", DataType_INTEGER, 0, 4, 5000, 20, Some(2), 0, 0) >>) >>,
      << Dev("d1", << FieldCfg("temp", DataType_FLOAT, 0, 8, 10000, 0, Some(2), 0, 0),
                      FieldCfg("temp", DataType_INTEGER, 0, 4, 5000, 20, None, 0, 0) >>) >> }

InitFields ==
    /\ \E fleet \in FieldFleets : SimpleEmulatorInit(fleet, Epoch)
    /\ now = Epoch
    /\ de_generators = <<>>
    /\ last_call = NoCall
    /\ produced = <<>>
    /\ samples = <<>>
    /\ reply = NoReply
    /\ NoConnection
    /\ SinkIdle
    /\ NoTasks

NextFields ==
    /\ \/ StartOnce
       \/ LoopChecks
       \/ FieldSteps
       \/ Wakes
    /\ UNCHANGED <<samples, reply, ws, inflight>>

SpecFields == InitFields /\ [][NextFields]_vars

\* C39: a device has as many generators as configured fields, and the
\* configuration the loop takes a field's frequency from is the one the
\* field's generator was built from
C39_OwnGeneratorOwnConfig ==
    \A d \in DeviceIds(config) :
        /\ Cardinality(DOMAIN generators[d]) = Len(DeviceDef(config, d).data_configs)
        /\ \A n \in DOMAIN generators[d] :
             FirstConfig(DeviceDef(config, d), n) = generators[d][n].config

----------------------------------------------------------------------------
(* start() and stop() as coroutines: the tasks start() creates and the
   asyncio.gather it waits in *)

\* an asyncio.Task: created (scheduled, its coroutine not yet entered),
\* sleeping (suspended in asyncio.sleep until wake_at), done (returned),
\* awaiting (suspended in a gather), cancelled, or failed (ended by an
\* exception); must_cancel is set by Task.cancel() until the task next runs;
\* runs is the start() call whose coroutine the task wraps, if any; ended
\* tells in which order the tasks ended
NewTask(kind, name) ==
    [kind |-> kind, name |-> name, state |-> "created", must_cancel |-> FALSE,
     wake_at |-> 0, runs |-> 0, ended |-> 0]

Finished(task) == task.state \in {"done", "cancelled", "failed"}

\* task i ends now, after the tasks that ended before
Ends(ts, i, state) ==
    [ts EXCEPT ![i].state = state,
               ![i].must_cancel = FALSE,
               ![i].ended = Cardinality({j \in DOMAIN ts : Finished(ts[j])}) + 1]

\* a start() or stop() coroutine suspended in asyncio.gather over the tasks
\* `awaits` (and, for SimpleEmulator.start, the emulation loop `loop`), of
\* which the tasks `early` had ended before the gather began; stop_seen is
\* history: stop() was called since this coroutine began
NewCall(op, loop, awaits) ==
    [op |-> op, state |-> "waiting", loop |-> loop, awaits |-> awaits,
     early |-> {t \in awaits : t \in DOMAIN tasks /\ Finished(tasks[t])},
     stop_seen |-> FALSE, after_stop |-> FALSE]

\* every waiting coroutine has now seen a stop request
SeeStop(cs) == [c \in DOMAIN cs |-> [cs[c] EXCEPT !.stop_seen = TRUE]]

\* SimpleEmulator.start(enable_api), called once: with the API the
\* RestApiServer is constructed, api_task is created and the coroutine
\* waits in gather(self._main_emulation_loop(), api_task); without it the
\* coroutine awaits the emulation loop alone
SimpleStart(enable_api) ==
    /\ Len(loops) = 0
    /\ running' = TRUE
    /\ loops' = Append(loops, NewLoop(config))
    /\ tasks' = IF enable_api THEN Append(tasks, NewTask("api", "")) ELSE tasks
    /\ calls' = Append(calls, NewCall("start", Len(loops) + 1,
                                      IF enable_api THEN {Len(tasks) + 1} ELSE {}))
    /\ UNCHANGED <<config, generators, last_generation_times, latest_data, faults>>
    /\ UNCHANGED <<now, de_generators, de_running>>
    /\ UNCHANGED histVars
    /\ UNCHANGED sinkVars

SimpleStarts == \E enable_api \in BOOLEAN : SimpleStart(enable_api)

\* RestApiServer.start up to its first asyncio.sleep(1): runner.setup(),
\* site.start(), then `while True: await asyncio.sleep(1)`; a later wake of
\* the task goes back to the same sleep
ApiServe(i) ==
    /\ tasks[i].kind = "api"
    /\ tasks[i].state = "created"
    /\ ~Busy
    /\ tasks' = [tasks EXCEPT ![i].state = "sleeping"]
    /\ UNCHANGED emuVars
    /\ UNCHANGED <<now, de_generators, de_running, calls>>
    /\ UNCHANGED histVars
    /\ UNCHANGED sinkVars

\* SimpleEmulator.stop(): clears running, awaits RestApiServer.stop() if
\* there is a rest_server, which writes a log line, and returns; no task is
\* cancelled
SimpleStop ==
    /\ Len(calls) > 0
    /\ running
    /\ running' = FALSE
    /\ loops' = [l \in DOMAIN loops |->
                   IF Alive(l) THEN [loops[l] EXCEPT !.stopped = TRUE] ELSE loops[l]]
    /\ calls' = SeeStop(calls)
    /\ UNCHANGED <<config, generators, last_generation_times, latest_data, faults>>
    /\ UNCHANGED <<now, de_generators, de_running, tasks>>
    /\ UNCHANGED histVars
    /\ UNCHANGED sinkVars

\* the outcome of asyncio.gather(*awaited) as seen by the coroutine that
\* awaits it: the first awaited task seen to have failed or to have been
\* cancelled decides ("raised", or "cancelled" for CancelledError), where
\* the tasks that had ended before the gather are seen first, in the order
\* of the argument list, and the others in the order they end; "returned"
\* when all are done; nothing while the gather still waits
GatherOutcomes(awaited, early, loop_done) ==
    LET broken == {i \in awaited : tasks[i].state \in {"failed", "cancelled"}}
        first == IF broken \cap early # {} THEN SetMin(broken \cap early)
                 ELSE CHOOSE i \in broken :
                        \A j \in broken : tasks[i].ended <= tasks[j].ended
    IN  IF broken # {}
        THEN {IF tasks[first].state = "failed" THEN "raised" ELSE "cancelled"}
        ELSE IF loop_done /\ \A i \in awaited : tasks[i].state = "done"
             THEN {"returned"} ELSE {}

\* a task wrapping the coroutine of call c ends as the coroutine does
TasksAfter(c, state) ==
    [i \in DOMAIN tasks |->
       IF tasks[i].runs = c
       THEN Ends(tasks, i, IF state = "raised" THEN "failed"
                           ELSE IF state = "cancelled" THEN "cancelled"
                           ELSE "done")[i]
       ELSE tasks[i]]

\* start() resumes from its gather: SimpleEmulator.start and
\* DeviceEmulator.start return, the latter also after CancelledError
\* (`except asyncio.CancelledError` logs), or re-raise an Exception;
\* MultiDeviceEmulator.start catches and re-raises Exception only
StartResumes(c) ==
    /\ calls[c].op \in {"start", "multi_start"}
    /\ calls[c].state = "waiting"
    /\ ~Busy
    /\ \E outcome \in GatherOutcomes(calls[c].awaits, calls[c].early,
                                     calls[c].loop = 0 \/ loops[calls[c].loop].pc = "exited") :
         LET state == IF outcome = "raised" THEN "raised"
                      ELSE IF outcome = "cancelled" /\ calls[c].op = "multi_start"
                           THEN "cancelled"
                      ELSE "returned"
         IN  /\ calls' = [calls EXCEPT ![c].state = state]
             /\ tasks' = TasksAfter(c, state)
    /\ UNCHANGED emuVars
    /\ UNCHANGED <<now, de_generators, de_running>>
    /\ UNCHANGED histVars
    /\ UNCHANGED sinkVars

\* ticks of the emulation loop the model of start() with the API follows
MaxApiStopTicks == 3

ApiStopHorizon == Epoch + MaxApiStopTicks * DefaultSleepMs

\* the loop wakes from its sleep: within the horizon, and at any time once
\* stop() was called
ApiStopWakes ==
    \E l \in DOMAIN loops :
        Wake(l, IF running THEN ApiStopHorizon ELSE Max2(now, loops[l].wake_at))

ApiServes == \E i \in DOMAIN tasks : ApiServe(i)

StartResumptions == \E c \in DOMAIN calls : StartResumes(c)

NextApiStop ==
    /\ \/ SimpleStarts
       \/ SimpleStop
       \/ ApiServes
       \/ LoopChecks
       \/ DriftFieldSteps
       \/ ApiStopWakes
       \/ StartResumptions
    /\ UNCHANGED <<samples, reply, ws, inflight>>

\* every coroutine that can run is run eventually
SpecApiStop == InitLoop /\ [][NextApiStop]_vars /\ WF_vars(NextApiStop)

\* C33: after stop() the start() coroutine of an emulator started with the
\* REST API eventually returns
C33_StartReturnsAfterStop ==
    (Len(calls) > 0 /\ calls[1].awaits # {} /\ calls[1].stop_seen)
      ~> (Len(calls) > 0 /\ calls[1].state = "returned")

\* ... as it does when the emulator was started without the API
StartReturnsAfterStopNoApi ==
    (Len(calls) > 0 /\ calls[1].awaits = {} /\ calls[1].stop_seen)
      ~> (Len(calls) > 0 /\ calls[1].state = "returned")

----------------------------------------------------------------------------
(* DeviceEmulator.start() and stop(): one generation task per field *)

\* the two fields of the DeviceEmulator whose tasks the model follows, in
\* the order of config.data_configs
TaskConfigs ==
    << FieldCfg("a", DataType_INTEGER, 0, 2, 1000, 1, Some(1), 0, 0),
       FieldCfg("b", DataType_BOOLEAN, 0, 2, 500, 0, None, 0, 0) >>

TaskFields == [i \in DOMAIN TaskConfigs |-> TaskConfigs[i].name]

\* stop() calls the model follows
MaxTaskStops == 1

\* seconds of generation the model follows
MaxTaskSeconds == 1

TaskHorizon == Epoch + MaxTaskSeconds * MsPerSecond

InitTasks ==
    /\ SimpleEmulatorInit(<<>>, Epoch)
    /\ \E v1 \in InitialValues(TaskConfigs[1]) :
       \E v2 \in InitialValues(TaskConfigs[2]) :
         de_generators = [n \in {TaskFields[i] : i \in DOMAIN TaskFields} |->
                            IF n = TaskFields[1]
                            THEN NewGenerator(TaskConfigs[1], v1, Epoch)
                            ELSE NewGenerator(TaskConfigs[2], v2, Epoch)]
    /\ now = Epoch
    /\ last_call = NoCall
    /\ produced = [k \in {<<DeviceEmulatorId, n>> : n \in DOMAIN de_generators} |-> None]
    /\ samples = <<>>
    /\ reply = NoReply
    /\ NoConnection
    /\ SinkIdle
    /\ NoTasks

\* the tasks in DeviceEmulator.tasks
OwnTasks(ts) == {i \in DOMAIN ts : ts[i].kind \in {"gen", "server"}}

NumCalls(op) == Cardinality({c \in DOMAIN calls : calls[c].op = op})

\* DeviceEmulator.start(), called directly (i = 0) or as the coroutine of
\* the task i MultiDeviceEmulator.start created: sets running, appends one
\* generation task per generator and the server task to self.tasks, which
\* keeps the tasks of earlier runs, and waits in gather(*self.tasks)
DeviceStart(i) ==
    LET c == Len(calls) + 1
        created == [j \in DOMAIN TaskFields |-> NewTask("gen", TaskFields[j])]
                     \o << NewTask("server", "") >>
        before == IF i = 0 THEN tasks
                  ELSE [tasks EXCEPT ![i].state = "awaiting", ![i].runs = c]
        call == NewCall("start", 0, OwnTasks(before \o created))
    IN  /\ de_running' = TRUE
        /\ tasks' = before \o created
        /\ calls' = Append(calls,
                           [call EXCEPT !.after_stop =
                              \E s \in DOMAIN calls : /\ calls[s].op = "stop"
                                                      /\ calls[s].state = "returned"])
        /\ UNCHANGED emuVars
        /\ UNCHANGED <<now, de_generators>>
        /\ UNCHANGED histVars
        /\ UNCHANGED sinkVars

\* the tasks one start() created are first run one after another, in the
\* order they were created, before any other coroutine resumes
BatchEntered ==
    Cardinality({i \in OwnTasks(tasks) : tasks[i].state = "created"})
      \in {0, Len(TaskFields) + 1}

\* start() awaited by the caller: the first call, or a call after the
\* stop() that followed the previous start() has completed
DirectStart ==
    /\ NumCalls("start") = NumCalls("stop")
    /\ BatchEntered
    /\ \A c \in DOMAIN calls : calls[c].state # "waiting"
    /\ \A i \in DOMAIN tasks : tasks[i].kind = "device" => Finished(tasks[i])
    /\ DeviceStart(0)

\* MultiDeviceEmulator.start() for a fleet of this one device, without the
\* REST API: creates the task of emulator.start() and waits in gather
MultiStart ==
    /\ Len(calls) = 0
    /\ Len(tasks) = 0
    /\ tasks' = << NewTask("device", DeviceEmulatorId) >>
    /\ calls' = << NewCall("multi_start", 0, {1}) >>
    /\ UNCHANGED emuVars
    /\ UNCHANGED <<now, de_generators, de_running>>
    /\ UNCHANGED histVars
    /\ UNCHANGED sinkVars

\* the interval _data_generation_loop sleeps between two values
LoopSleepMs(cfg) ==
    IF cfg.frequency > 0 THEN (MsPerSecond * MsPerSecond) \div cfg.frequency
    ELSE MsPerSecond

\* the event loop can run task i now
Runnable(i) ==
    \/ tasks[i].state = "created"
    \/ /\ tasks[i].state = "sleeping"
       /\ tasks[i].must_cancel \/ now >= tasks[i].wake_at

\* Task.cancel() reaches task i: before its coroutine was entered the task
\* ends cancelled; inside asyncio.sleep the coroutine gets CancelledError,
\* logs it and returns
Cancelled(i) ==
    /\ tasks' = Ends(tasks, i, IF tasks[i].state = "created"
                                THEN "cancelled" ELSE "done")
    /\ UNCHANGED <<de_generators, faults, produced, last_call>>

\* one turn of `while self.running` in _data_generation_loop(name, ...):
\* generate_data_point, _handle_generated_data, asyncio.sleep(1 / frequency);
\* an Exception is logged and raised again, which ends the task
GenerationTurn(i) ==
    LET name == tasks[i].name
        g == de_generators[name]
        key == <<DeviceEmulatorId, name>>
    IN  IF ~de_running
        THEN /\ tasks' = Ends(tasks, i, "done")
             /\ UNCHANGED <<de_generators, faults, produced, last_call>>
        ELSE \/ \E o \in generate_data_point(g, now, now) :
                  /\ de_generators' = [de_generators EXCEPT ![name] = o.gen]
                  /\ produced' = [produced EXCEPT ![key] = Some(o.value)]
                  /\ last_call' = Call("_data_generation_loop", DeviceEmulatorId, name,
                                       "ok", Some(o.value),
                                       Some(Previous(produced[key], g)),
                                       now - g.last_update, Some(g.config))
                  /\ tasks' = [tasks EXCEPT ![i].state = "sleeping",
                                            ![i].wake_at = now + LoopSleepMs(g.config)]
                  /\ UNCHANGED faults
             \/ /\ faults < MaxFaults
                /\ faults' = faults + 1
                /\ last_call' = Call("_data_generation_loop", DeviceEmulatorId, name,
                                     "error", None, None, 0, None)
                /\ tasks' = Ends(tasks, i, "failed")
                /\ UNCHANGED <<de_generators, produced>>

\* one turn of `while self.running` in _start_communication_server
ServerTurn(i) ==
    /\ tasks' = IF de_running
                THEN [tasks EXCEPT ![i].state = "sleeping",
                                   ![i].wake_at = now + MsPerSecond]
                ELSE Ends(tasks, i, "done")
    /\ UNCHANGED <<de_generators, faults, produced, last_call>>

\* the event loop runs task i up to its next await
TaskRuns(i) ==
    /\ tasks[i].kind \in {"gen", "server"}
    /\ Runnable(i)
    /\ IF tasks[i].must_cancel THEN Cancelled(i)
       ELSE IF tasks[i].kind = "gen" THEN GenerationTurn(i)
       ELSE ServerTurn(i)
    /\ UNCHANGED <<config, generators, last_generation_times, latest_data, running, loops>>
    /\ UNCHANGED <<now, de_running, calls>>
    /\ UNCHANGED sinkVars

\* the event loop enters the coroutine of the task MultiDeviceEmulator made
DeviceTaskRuns(i) ==
    /\ tasks[i].kind = "device"
    /\ tasks[i].state = "created"
    /\ DeviceStart(i)

\* DeviceEmulator.stop(): clears running, cancels every task in self.tasks
\* (a finished task ignores it) and waits in
\* gather(*self.tasks, return_exceptions=True)
DeviceStop ==
    /\ NumCalls("start") > 0
    /\ NumCalls("stop") < MaxTaskStops
    /\ BatchEntered
    /\ \A c \in DOMAIN calls : calls[c].op = "stop" => calls[c].state # "waiting"
    /\ de_running' = FALSE
    /\ tasks' = [i \in DOMAIN tasks |->
                   IF i \in OwnTasks(tasks) /\ ~Finished(tasks[i])
                   THEN [tasks[i] EXCEPT !.must_cancel = TRUE] ELSE tasks[i]]
    /\ calls' = Append(SeeStop(calls), NewCall("stop", 0, OwnTasks(tasks)))
    /\ UNCHANGED emuVars
    /\ UNCHANGED <<now, de_generators>>
    /\ UNCHANGED histVars
    /\ UNCHANGED sinkVars

\* stop() resumes from its gather once every task has ended, however
StopResumes(c) ==
    /\ calls[c].op = "stop"
    /\ calls[c].state = "waiting"
    /\ \A i \in calls[c].awaits : Finished(tasks[i])
    /\ calls' = [calls EXCEPT ![c].state = "returned"]
    /\ UNCHANGED emuVars
    /\ UNCHANGED <<now, de_generators, de_running, tasks>>
    /\ UNCHANGED histVars
    /\ UNCHANGED sinkVars

\* nothing can run: the clock moves on to the earliest wake-up
TaskClock ==
    LET asleep == {i \in DOMAIN tasks : tasks[i].state = "sleeping"}
    IN  /\ asleep # {}
        /\ \A i \in DOMAIN tasks : ~Runnable(i)
        /\ \A c \in DOMAIN calls : ~ENABLED StartResumes(c) /\ ~ENABLED StopResumes(c)
        /\ now' = SetMin({tasks[i].wake_at : i \in asleep})
        /\ now' <= TaskHorizon
        /\ UNCHANGED emuVars
        /\ UNCHANGED <<de_generators, de_running, tasks, calls>>
        /\ UNCHANGED histVars
        /\ UNCHANGED sinkVars

TaskSteps == \E i \in DOMAIN tasks : TaskRuns(i)

DeviceTaskSteps == \E i \in DOMAIN tasks : DeviceTaskRuns(i)

StopResumptions == \E c \in DOMAIN calls : StopResumes(c)

NextTasks ==
    /\ \/ DirectStart
       \/ MultiStart
       \/ DeviceTaskSteps
       \/ TaskSteps
       \/ DeviceStop
       \/ StartResumptions
       \/ StopResumptions
       \/ TaskClock
    /\ UNCHANGED <<samples, reply, ws, inflight>>

SpecTasks == InitTasks /\ [][NextTasks]_vars

\* C31: an error raised while generating one field does not make
\* DeviceEmulator.start() or MultiDeviceEmulator.start() fail
C31_FieldErrorStaysLocal ==
    \A c \in DOMAIN calls :
        calls[c].op \in {"start", "multi_start"} => calls[c].state # "raised"

\* the failure of one field's task leaves every other task of the device
\* as it was: the other fields keep being generated
FailureLeavesOtherTasks ==
    [][\A i \in DOMAIN tasks :
         (tasks[i].kind = "gen" /\ tasks[i].state # "failed"
            /\ tasks'[i].state = "failed")
           => \A j \in DOMAIN tasks : j # i => tasks'[j] = tasks[j]]_vars

\* a field was generated while the task of another field had failed
GeneratedNextToFailed ==
    /\ last_call.op = "_data_generation_loop"
    /\ last_call.status = "ok"
    /\ \E i \in DOMAIN tasks : /\ tasks[i].state = "failed"
                               /\ tasks[i].name # last_call.name

\* C32: a start() called after a completed stop() does not return until
\* the next stop request
C32_RestartWaitsForStop ==
    \A c \in DOMAIN calls :
        (calls[c].op = "start" /\ calls[c].after_stop /\ calls[c].state = "returned")
          => calls[c].stop_seen

\* ... which holds when every task of the previous run had entered its
\* coroutine before stop() cancelled it
RestartWaitsAfterRunTasks ==
    \A c \in DOMAIN calls :
        (/\ calls[c].op = "start"
         /\ calls[c].after_stop
         /\ calls[c].state = "returned"
         /\ \A i \in calls[c].awaits : tasks[i].state # "cancelled")
          => calls[c].stop_seen

\* the restarted emulator is generating while its start() waits
RestartedAndGenerating ==
    \E c \in DOMAIN calls :
        /\ calls[c].op = "start"
        /\ calls[c].after_stop
        /\ calls[c].state = "waiting"
        /\ ~calls[c].stop_seen
        /\ \E i \in calls[c].awaits : tasks[i].kind = "gen" /\ tasks[i].state = "sleeping"

====
